---------------------------- MODULE Spec2Model ----------------------------
(***************************************************************************)
(* memchin practice engine: the bucketed spaced-repetition scheduler       *)
(* (server/services/srs.ts), the progress store and the word-selection     *)
(* queries (server/db.ts), and the session routes that drive them          *)
(* (server/routes/practice.ts, server/routes/words.ts).                    *)
(*                                                                         *)
(* Time is counted in ticks, TicksPerSecond to the second: Date.now() has  *)
(* a sub-second part, the timestamps stored in the database do not.        *)
(***************************************************************************)
EXTENDS Integers, Sequences, FiniteSets, TLC

VARIABLES
    words,        \* the words table: hanzi -> row
    progress,     \* the progress table: <<hanzi, mode>> -> row
    now,          \* Date.now(), in ticks
    session,      \* the client's started session (mode, characterMode, questions)
    pendingAdds,  \* POST /words requests waiting on generateExamples: hanzi -> how many
    last,         \* the last request served and its response
    answered,     \* history: <<hanzi, mode>> graded since the item's last reset
    seeded,       \* history: <<hanzi, mode>> initialised by add-word since the last reset
    steps,        \* requests served so far
    synonyms,     \* the pinyin_synonyms table: a set of <<hanzi, synonym_pinyin>>
    client,       \* the state of client/main.ts during a practice session
    examples,     \* the examples column of the words table: hanzi -> examples
    cache         \* db.ts allWords and ambiguousTranslations: empty while null

vars ==
    <<words, progress, now, session, pendingAdds, last, answered, seeded, steps,
      synonyms, client, examples, cache>>

----------------------------------------------------------------------------
(* Bounds of the model *)

MaxSteps == 2
MaxCount == 3
RandDen == 2
TicksPerSecond == 4

----------------------------------------------------------------------------
(* shared/types.ts *)

Modes == {"hanzi2pinyin", "hanzi2english", "english2hanzi", "english2pinyin"}

ModeList == <<"hanzi2pinyin", "hanzi2english", "english2hanzi", "english2pinyin">>

NULL_RANK == 0

NULL_BUCKET == -1

Min(a, b) == IF a < b THEN a ELSE b

----------------------------------------------------------------------------
(* server/services/srs.ts *)

BUCKET_DELAYS_MINUTES ==
    <<0, 1, 5, 30, 4 * 60, 24 * 60, 3 * 24 * 60, 7 * 24 * 60, 30 * 24 * 60>>

MAX_BUCKET == Len(BUCKET_DELAYS_MINUTES) - 1

\* toISOString().replace('T', ' ').replace(/\.\d+Z$/, ''): the instant with its
\* fraction of a second cut off, as a count of whole seconds
FormatTimestamp(t) == t \div TicksPerSecond

\* BUCKET_DELAYS_MINUTES[Math.min(bucket, MAX_BUCKET)], in ticks
\* (delayMinutes * 60 * 1000 ms)
DelayTicks(bucket) ==
    BUCKET_DELAYS_MINUTES[Min(bucket, MAX_BUCKET) + 1] * 60 * TicksPerSecond

\* Math.random() = k / RandDen, k in 0 .. RandDen - 1:
\* jitter = delay * (0.75 + random * 0.5); new Date(...) drops the fraction of a tick
\* Variant: the jitter factor drawn from [0.5, 1.0) instead of [0.75, 1.25)
CalculateNextEligibleEarly(bucket, t, k) ==
    LET jitter == (DelayTicks(bucket) * (2 * RandDen + 2 * k)) \div (4 * RandDen)
    IN  FormatTimestamp(t + jitter)

\* Variant: the second after the one calculateNextEligible computes
CalculateNextEligibleLate(bucket, t, k) ==
    LET jitter == (DelayTicks(bucket) * (3 * RandDen + 2 * k)) \div (4 * RandDen)
    IN  FormatTimestamp(t + jitter) + 1

CalculateNextEligible(bucket, t, k) ==
    LET jitter == (DelayTicks(bucket) * (3 * RandDen + 2 * k)) \div (4 * RandDen)
    IN  FormatTimestamp(t + jitter)

\* Variant: a wrong answer leaves the bucket where it is
NewBucketKeepOnWrong(currentBucket, correct) ==
    IF correct THEN Min(currentBucket + 1, MAX_BUCKET) ELSE currentBucket

\* Variant: a right answer promotes without the cap at MAX_BUCKET
NewBucketUncapped(currentBucket, correct) ==
    IF correct THEN currentBucket + 1 ELSE 0

NewBucket(currentBucket, correct) ==
    IF correct THEN Min(currentBucket + 1, MAX_BUCKET) ELSE 0

----------------------------------------------------------------------------
(* server/db.ts: progress operations *)

HasProgress(p, hanzi, mode) == <<hanzi, mode>> \in DOMAIN p

\* Variant: an UPDATE whose WHERE clause names the hanzi and not the mode, so
\* that last_practiced is stamped on every row of the written form
UpsertProgressAllModes(p, hanzi, mode, bucket, nextEligible, characterMode, t) ==
    LET key == <<hanzi, mode>>
        row == [bucket |-> bucket,
                lastPracticed |-> FormatTimestamp(t),
                nextEligible |-> nextEligible,
                characterModeOnly |->
                    IF key \in DOMAIN p
                    THEN (IF characterMode THEN p[key].characterModeOnly ELSE 0)
                    ELSE (IF characterMode THEN 1 ELSE 0)]
    IN  [k \in DOMAIN p \cup {key} |->
            IF k = key THEN row
            ELSE IF k[1] = hanzi
                 THEN [p[k] EXCEPT !.lastPracticed = FormatTimestamp(t)]
                 ELSE p[k]]

\* Variant: character_mode_only = excluded.character_mode_only on every write
UpsertProgressLastGrading(p, hanzi, mode, bucket, nextEligible, characterMode, t) ==
    LET row == [bucket |-> bucket,
                lastPracticed |-> FormatTimestamp(t),
                nextEligible |-> nextEligible,
                characterModeOnly |-> IF characterMode THEN 1 ELSE 0]
    IN  [k \in DOMAIN p \cup {<<hanzi, mode>>} |->
            IF k = <<hanzi, mode>> THEN row ELSE p[k]]

\* INSERT ... ON CONFLICT(hanzi, mode) DO UPDATE
UpsertProgress(p, hanzi, mode, bucket, nextEligible, characterMode, t) ==
    LET key == <<hanzi, mode>>
        row == [bucket |-> bucket,
                lastPracticed |-> FormatTimestamp(t),
                nextEligible |-> nextEligible,
                characterModeOnly |->
                    IF HasProgress(p, hanzi, mode)
                    THEN (IF characterMode THEN p[key].characterModeOnly ELSE 0)
                    ELSE (IF characterMode THEN 1 ELSE 0)]
    IN  [k \in DOMAIN p \cup {key} |-> IF k = key THEN row ELSE p[k]]

\* Variant: DELETE ... WHERE hanzi = ? AND mode = 'hanzi2pinyin'
DeleteProgressOneMode(p, hanzi) ==
    [k \in {x \in DOMAIN p : x[1] # hanzi \/ x[2] # "hanzi2pinyin"} |-> p[k]]

\* Variant: DELETE FROM progress
DeleteProgressEveryWord(p, hanzi) ==
    [k \in {x \in DOMAIN p : FALSE} |-> p[k]]

\* DELETE FROM progress WHERE hanzi = ?
DeleteProgress(p, hanzi) ==
    [k \in {x \in DOMAIN p : x[1] # hanzi} |-> p[k]]

\* Variant: the transition applied twice to one graded result
UpdateProgressTwice(p, hanzi, mode, correct, characterMode, t, k) ==
    LET currentBucket == IF HasProgress(p, hanzi, mode)
                         THEN p[<<hanzi, mode>>].bucket ELSE 0
        newBucket == NewBucket(NewBucket(currentBucket, correct), correct)
        nextEligible == CalculateNextEligible(newBucket, t, k)
    IN  UpsertProgress(p, hanzi, mode, newBucket, nextEligible, characterMode, t)

\* srs.ts updateProgress: one read, one transition, one upsert
UpdateProgress(p, hanzi, mode, correct, characterMode, t, k) ==
    LET currentBucket == IF HasProgress(p, hanzi, mode)
                         THEN p[<<hanzi, mode>>].bucket ELSE 0
        newBucket == NewBucket(currentBucket, correct)
        nextEligible == CalculateNextEligible(newBucket, t, k)
    IN  UpsertProgress(p, hanzi, mode, newBucket, nextEligible, characterMode, t)

----------------------------------------------------------------------------
(* server/services/pinyin.ts                                                *)
(*                                                                          *)
(* A string is a sequence of characters. The characters of the model: the   *)
(* space, lower-case and upper-case letters, vowels that carry a tone mark  *)
(* (written as the base vowel followed by the tone number, "i3" for the     *)
(* third-tone i; the u with two dots is "uu", "uu3" with the third tone),   *)
(* digits, and everything else as itself.                                   *)

Space == " "

\* TONE_TO_NUMBER: tone-marked vowel -> <<base vowel, tone>>
TONE_TO_NUMBER ==
    ("a1" :> <<"a", "1">>) @@ ("a2" :> <<"a", "2">>) @@ ("a3" :> <<"a", "3">>) @@ ("a4" :> <<"a", "4">>)
    @@ ("e1" :> <<"e", "1">>) @@ ("e2" :> <<"e", "2">>) @@ ("e3" :> <<"e", "3">>) @@ ("e4" :> <<"e", "4">>)
    @@ ("i1" :> <<"i", "1">>) @@ ("i2" :> <<"i", "2">>) @@ ("i3" :> <<"i", "3">>) @@ ("i4" :> <<"i", "4">>)
    @@ ("o1" :> <<"o", "1">>) @@ ("o2" :> <<"o", "2">>) @@ ("o3" :> <<"o", "3">>) @@ ("o4" :> <<"o", "4">>)
    @@ ("u1" :> <<"u", "1">>) @@ ("u2" :> <<"u", "2">>) @@ ("u3" :> <<"u", "3">>) @@ ("u4" :> <<"u", "4">>)
    @@ ("uu1" :> <<"v", "1">>) @@ ("uu2" :> <<"v", "2">>) @@ ("uu3" :> <<"v", "3">>) @@ ("uu4" :> <<"v", "4">>)

\* The upper-case characters of the model and their lower-case forms
UpperCase == ("N" :> "n") @@ ("H" :> "h") @@ ("You" :> "you")

\* String.prototype.toLowerCase
ToLowerCase(str) ==
    [i \in 1 .. Len(str) |->
        IF str[i] \in DOMAIN UpperCase THEN UpperCase[str[i]] ELSE str[i]]

\* String.prototype.trim
RECURSIVE Trim(_)
Trim(str) ==
    IF str = <<>> THEN <<>>
    ELSE IF Head(str) = Space THEN Trim(Tail(str))
    ELSE IF str[Len(str)] = Space THEN Trim(SubSeq(str, 1, Len(str) - 1))
    ELSE str

\* The body of toNumberedPinyin on a lower-cased string, read left to right:
\* white space ends a syllable, a syllable ends with the number of its last tone
\* mark when it has one (tone is "5" while it has none), and the syllables are
\* joined with nothing between them
RECURSIVE NumberSyllables(_, _)
NumberSyllables(str, tone) ==
    LET ending == IF tone = "5" THEN <<>> ELSE <<tone>>
    IN  IF str = <<>> THEN ending
        ELSE IF Head(str) = Space THEN ending \o NumberSyllables(Tail(str), "5")
        ELSE IF Head(str) \in DOMAIN TONE_TO_NUMBER
        THEN <<TONE_TO_NUMBER[Head(str)][1]>>
                 \o NumberSyllables(Tail(str), TONE_TO_NUMBER[Head(str)][2])
        ELSE <<Head(str)>> \o NumberSyllables(Tail(str), tone)

\* ToNumberedPinyin without toLowerCase
ToNumberedPinyinKeepingCase(pinyin) == NumberSyllables(pinyin, "5")

ToNumberedPinyin(pinyin) == NumberSyllables(ToLowerCase(pinyin), "5")

NormalizePinyin(input) == ToNumberedPinyin(Trim(ToLowerCase(input)))

PinyinMatches(input, expected) == NormalizePinyin(input) = NormalizePinyin(expected)

\* translations.some(t => t.toLowerCase().trim() === input.toLowerCase().trim())
EnglishMatches(input, translations) ==
    \E i \in 1 .. Len(translations) :
        Trim(ToLowerCase(translations[i])) = Trim(ToLowerCase(input))

HanziMatches(input, expected) == Trim(input) = Trim(expected)

\* The character classes A, E, I, O, U: a vowel with or without a tone mark.
\* The class V of the u with two dots also holds the letter v
VowelClass(vowel) ==
    {vowel} \cup {c \in DOMAIN TONE_TO_NUMBER :
                    TONE_TO_NUMBER[c][1] = (IF vowel = "uu" THEN "v" ELSE vowel)}
            \cup (IF vowel = "uu" THEN {"v"} ELSE {})

\* FINALS: the alternatives of the regular expression in their order, each a
\* sequence of character classes
FINALS ==
    << <<VowelClass("i"), VowelClass("a"), {"n"}, {"g"}>>, <<VowelClass("i"), VowelClass("a"), VowelClass("o")>>,
       <<VowelClass("i"), VowelClass("a"), {"n"}>>, <<VowelClass("i"), VowelClass("o"), {"n"}, {"g"}>>,
       <<VowelClass("u"), VowelClass("a"), {"n"}, {"g"}>>, <<VowelClass("u"), VowelClass("a"), VowelClass("i")>>,
       <<VowelClass("u"), VowelClass("a"), {"n"}>>, <<VowelClass("i"), VowelClass("a")>>,
       <<VowelClass("i"), VowelClass("e")>>, <<VowelClass("i"), VowelClass("u")>>,
       <<VowelClass("i"), {"n"}, {"g"}>>, <<VowelClass("i"), {"n"}>>,
       <<VowelClass("u"), VowelClass("a")>>, <<VowelClass("u"), VowelClass("o")>>,
       <<VowelClass("u"), VowelClass("e")>>, <<VowelClass("u"), VowelClass("i")>>,
       <<VowelClass("u"), {"n"}>>, <<VowelClass("u"), {"n"}, {"g"}>>,
       <<VowelClass("uu"), VowelClass("e")>>, <<VowelClass("uu"), VowelClass("a"), {"n"}>>,
       <<VowelClass("uu"), {"n"}>>, <<VowelClass("a"), {"n"}, {"g"}>>,
       <<VowelClass("a"), VowelClass("i")>>, <<VowelClass("a"), VowelClass("o")>>,
       <<VowelClass("a"), {"n"}>>, <<VowelClass("e"), {"n"}, {"g"}>>,
       <<VowelClass("e"), VowelClass("i")>>, <<VowelClass("e"), {"n"}>>,
       <<VowelClass("e"), {"r"}>>, <<VowelClass("o"), {"n"}, {"g"}>>,
       <<VowelClass("o"), VowelClass("u")>>, <<VowelClass("a")>>,
       <<VowelClass("e")>>, <<VowelClass("i")>>,
       <<VowelClass("o")>>, <<VowelClass("u")>>,
       <<VowelClass("uu")>> >>

\* INITIALS: zh, ch, sh, then one consonant
InitialLetters ==
    {"b", "p", "m", "f", "d", "t", "n", "l", "g", "k", "h", "j", "q", "x", "r",
     "z", "c", "s", "y", "w"}

\* Whether the string begins with the characters of a pattern
StartsWith(str, pattern) ==
    /\ Len(str) >= Len(pattern)
    /\ \A i \in 1 .. Len(pattern) : str[i] \in pattern[i]

\* The length of the first alternative of FINALS the string begins with, or 0
FinalLength(str) ==
    IF \E k \in 1 .. Len(FINALS) : StartsWith(str, FINALS[k])
    THEN Len(FINALS[CHOOSE k \in 1 .. Len(FINALS) :
                       /\ StartsWith(str, FINALS[k])
                       /\ \A k2 \in 1 .. (k - 1) : ~StartsWith(str, FINALS[k2])])
    ELSE 0

\* The lengths of the initial the expression tries, in its order: the two
\* letters of zh, ch, sh, one consonant, none (INITIALS is optional)
InitialLengths(str) ==
    (IF StartsWith(str, <<{"z", "c", "s"}, {"h"}>>) THEN <<2>> ELSE <<>>)
    \o (IF StartsWith(str, <<InitialLetters>>) THEN <<1>> ELSE <<>>)
    \o <<0>>

\* remaining.match(SYLLABLE_PATTERN): the length of match[1], 0 for no match.
\* The flag i makes the match ignore letter case
SyllableMatch(remaining) ==
    LET str == ToLowerCase(remaining)
        tries == InitialLengths(str)
        Ok(n) == FinalLength(SubSeq(str, tries[n] + 1, Len(str))) > 0
    IN  IF \E n \in 1 .. Len(tries) : Ok(n)
        THEN LET n == CHOOSE n0 \in 1 .. Len(tries) :
                          Ok(n0) /\ \A n1 \in 1 .. (n0 - 1) : ~Ok(n1)
             IN  tries[n] + FinalLength(SubSeq(str, tries[n] + 1, Len(str)))
        ELSE 0

Apostrophe == "'"

\* pinyin.replace(/['\s]+/g, ' '): prev tells whether the character before
\* was replaced already
RECURSIVE ReplaceSeparators(_, _)
ReplaceSeparators(str, prev) ==
    IF str = <<>> THEN <<>>
    ELSE IF Head(str) \in {Apostrophe, Space}
    THEN (IF prev THEN <<>> ELSE <<Space>>) \o ReplaceSeparators(Tail(str), TRUE)
    ELSE <<Head(str)>> \o ReplaceSeparators(Tail(str), FALSE)

\* SplitLoop that leaves out a character no syllable begins with
RECURSIVE SplitLoopDropping(_)
SplitLoopDropping(remaining) ==
    IF Len(remaining) = 0 THEN <<>>
    ELSE LET n == SyllableMatch(remaining)
         IN  IF n > 0
             THEN <<SubSeq(remaining, 1, n)>>
                      \o SplitLoopDropping(SubSeq(remaining, n + 1, Len(remaining)))
             ELSE SplitLoopDropping(Tail(remaining))

\* The while loop of splitPinyin: the syllables, in order
RECURSIVE SplitLoop(_)
SplitLoop(remaining) ==
    IF Len(remaining) = 0 THEN <<>>
    ELSE LET n == SyllableMatch(remaining)
             taken == IF n > 0 THEN n ELSE 1
         IN  <<SubSeq(remaining, 1, taken)>>
                 \o SplitLoop(SubSeq(remaining, taken + 1, Len(remaining)))

\* syllables.join(' ')
RECURSIVE JoinSyllables(_)
JoinSyllables(syllables) ==
    IF syllables = <<>> THEN <<>>
    ELSE IF Len(syllables) = 1 THEN syllables[1]
    ELSE syllables[1] \o <<Space>> \o JoinSyllables(Tail(syllables))

\* splitPinyin: an input with a separator inside is returned with its
\* separators as single spaces, any other input is cut by the loop
SplitPinyin(pinyin) ==
    LET normalized == Trim(ReplaceSeparators(pinyin, FALSE))
    IN  IF \E i \in 1 .. Len(normalized) : normalized[i] = Space
        THEN normalized
        ELSE JoinSyllables(SplitLoop(pinyin))

----------------------------------------------------------------------------
(* The catalog: written forms are sequences of characters *)

De == <<"de">>
NiHao == <<"ni", "hao">>
Ni == <<"ni">>
Hao == <<"hao">>
Mao == <<"mao">>
Mi == <<"mi">>

\* The words an import (scripts/import-hsk.ts, insertWords) has stored
ImportedWords ==
    (De :> [pinyin |-> <<"d", "e">>, english |-> <<<<"[particle]">>>>,
            translatable |-> FALSE, rank |-> 1, hanziRank |-> 1,
            categories |-> {}, manual |-> FALSE])
    @@ (NiHao :> [pinyin |-> <<"n", "i3", Space, "h", "a3", "o">>,
                  english |-> <<<<"hello">>>>,
                  translatable |-> TRUE, rank |-> 2, hanziRank |-> NULL_RANK,
                  categories |-> {"greeting"}, manual |-> FALSE])
    @@ (Ni :> [pinyin |-> <<"n", "i3">>, english |-> <<<<"you">>>>,
               translatable |-> TRUE, rank |-> 3, hanziRank |-> 2,
               categories |-> {"people"}, manual |-> FALSE])
    @@ (Hao :> [pinyin |-> <<"h", "a3", "o">>, english |-> <<<<"good">>>>,
                translatable |-> TRUE, rank |-> 4, hanziRank |-> 3,
                categories |-> {"greeting"}, manual |-> FALSE])

\* Written forms a learner adds by hand (POST /words)
ManualWords == {Mao, Mi}

\* The pinyin and the translations the add-word request carries for each of them
ManualEntries ==
    (Mao :> [pinyin |-> <<"m", "a1", "o">>, english |-> <<<<"cat">>>>])
    @@ (Mi :> [pinyin |-> <<"m", "i3">>, english |-> <<<<"rice">>>>])

HanziUniverse == DOMAIN ImportedWords \cup ManualWords

\* routes/words.ts loadFrequencyData: the frequency file lists Mao and not Mi
FrequencyData == (Mao :> 5)

\* The category filters a request may carry
CategoryFilters == {{}, {"greeting"}}

----------------------------------------------------------------------------
(* server/db.ts: word query helpers *)

\* INSTR(outer, inner) > 0
Instr(outer, inner) ==
    \E i \in 1 .. (Len(outer) - Len(inner) + 1) :
        SubSeq(outer, i, i + Len(inner) - 1) = inner

RankColumn(row, characterMode) ==
    IF characterMode THEN row.hanziRank ELSE row.rank

\* getWordFilters().wordFilter: the AND clauses on w.*
\* WordFilter without the translatable clause
WordFilterAnyMeaning(ws, p, hanzi, mode, categories, characterMode) ==
    /\ (categories # {} => ws[hanzi].categories \cap categories # {})
    /\ RankColumn(ws[hanzi], characterMode) # NULL_RANK
    /\ (characterMode =>
            \E w2 \in DOMAIN ws :
                /\ \E m \in Modes : HasProgress(p, w2, m)
                /\ Instr(w2, hanzi))

\* WordFilter without the categories clause
WordFilterAnyCategory(ws, p, hanzi, mode, categories, characterMode) ==
    /\ (mode \in {"hanzi2english", "english2hanzi", "english2pinyin"}
            => ws[hanzi].translatable)
    /\ RankColumn(ws[hanzi], characterMode) # NULL_RANK
    /\ (characterMode =>
            \E w2 \in DOMAIN ws :
                /\ \E m \in Modes : HasProgress(p, w2, m)
                /\ Instr(w2, hanzi))

WordFilter(ws, p, hanzi, mode, categories, characterMode) ==
    /\ (mode \in {"hanzi2english", "english2hanzi", "english2pinyin"}
            => ws[hanzi].translatable)
    /\ (categories # {} => ws[hanzi].categories \cap categories # {})
    /\ RankColumn(ws[hanzi], characterMode) # NULL_RANK
    /\ (characterMode =>
            \E w2 \in DOMAIN ws :
                /\ \E m \in Modes : HasProgress(p, w2, m)
                /\ Instr(w2, hanzi))

\* getWordFilters().progressFilter: the AND clauses on p.*
ProgressFilter(row, characterMode) ==
    characterMode \/ row.characterModeOnly = 0

\* Variant: no condition on the joined progress row
NewWordConditionAny(p, hanzi, mode, characterMode) == TRUE

\* getWordFilters().newWordCondition, on the LEFT JOIN row of (hanzi, mode)
NewWordCondition(p, hanzi, mode, characterMode) ==
    IF characterMode
    THEN ~HasProgress(p, hanzi, mode)
    ELSE (~HasProgress(p, hanzi, mode)
          \/ p[<<hanzi, mode>>].characterModeOnly = 1)

\* datetime('now'): the current instant in whole seconds
SqlNow(t) == t \div TicksPerSecond

\* ORDER BY key ASC LIMIT count: every list SQLite may return, rows with equal
\* keys in either order. key is a function on S.
RECURSIVE OrderByLimit(_, _, _)
OrderByLimit(S, key, count) ==
    IF S = {} \/ count <= 0 THEN {<<>>}
    ELSE UNION {{<<x>> \o rest : rest \in OrderByLimit(S \ {x}, key, count - 1)} :
                  x \in {y \in S : \A z \in S : key[y] <= key[z]}}

\* ORDER BY RANDOM() LIMIT count: the rows in any order
RECURSIVE OrderByRandomLimit(_, _)
OrderByRandomLimit(S, count) ==
    IF S = {} \/ count <= 0 THEN {<<>>}
    ELSE UNION {{<<x>> \o rest : rest \in OrderByRandomLimit(S \ {x}, count - 1)} :
                  x \in S}

\* The rows of words JOIN progress that queryReviewWords selects from
ReviewRows(ws, p, t, mode, categories, characterMode, dueOnly) ==
    {h \in DOMAIN ws :
        /\ HasProgress(p, h, mode)
        /\ (dueOnly => p[<<h, mode>>].nextEligible <= SqlNow(t))
        /\ WordFilter(ws, p, h, mode, categories, characterMode)
        /\ ProgressFilter(p[<<h, mode>>], characterMode)}

\* Variant: ORDER BY RANDOM() whatever the caller asked for
QueryReviewWordsShuffled(ws, p, t, mode, categories, characterMode, count, dueOnly, random) ==
    OrderByRandomLimit(
        ReviewRows(ws, p, t, mode, categories, characterMode, dueOnly), count)

QueryReviewWords(ws, p, t, mode, categories, characterMode, count, dueOnly, random) ==
    LET rows == ReviewRows(ws, p, t, mode, categories, characterMode, dueOnly)
    IN  IF random
        THEN OrderByRandomLimit(rows, count)
        ELSE OrderByLimit(rows, [h \in rows |-> p[<<h, mode>>].nextEligible], count)

\* getDueCount: SELECT COUNT(*) of the rows that are due
GetDueCount(ws, p, t, mode, categories, characterMode) ==
    Cardinality(ReviewRows(ws, p, t, mode, categories, characterMode, TRUE))

\* The rows of words LEFT JOIN progress that queryNewWords selects from
NewRows(ws, p, mode, categories, characterMode) ==
    {h \in DOMAIN ws :
        /\ NewWordCondition(p, h, mode, characterMode)
        /\ WordFilter(ws, p, h, mode, categories, characterMode)}

QueryNewWords(ws, p, mode, categories, characterMode, count) ==
    LET rows == NewRows(ws, p, mode, categories, characterMode)
    IN  OrderByLimit(rows, [h \in rows |-> RankColumn(ws[h], characterMode)], count)

GetWordsForReview(ws, p, t, mode, count, categories, characterMode, random) ==
    QueryReviewWords(ws, p, t, mode, categories, characterMode, count, FALSE, random)

GetNewWords(ws, p, mode, count, categories, characterMode) ==
    QueryNewWords(ws, p, mode, categories, characterMode, count)

\* Variant: the fill query limited by count, not by count - result.length
GetWordsForPracticeOverfill(ws, p, t, mode, count, categories, characterMode) ==
    UNION {IF Len(result) < count
           THEN {result \o fill :
                   fill \in QueryNewWords(ws, p, mode, categories, characterMode,
                                          count)}
           ELSE {result} :
        result \in QueryReviewWords(ws, p, t, mode, categories, characterMode,
                                    count, TRUE, FALSE)}

\* Variant: new words taken first, due words filling what is left
GetWordsForPracticeNewFirst(ws, p, t, mode, count, categories, characterMode) ==
    UNION {IF Len(result) < count
           THEN {result \o fill :
                   fill \in QueryReviewWords(ws, p, t, mode, categories,
                                             characterMode, count - Len(result),
                                             TRUE, FALSE)}
           ELSE {result} :
        result \in QueryNewWords(ws, p, mode, categories, characterMode, count)}

GetWordsForPractice(ws, p, t, mode, count, categories, characterMode) ==
    UNION {IF Len(result) < count
           THEN {result \o fill :
                   fill \in QueryNewWords(ws, p, mode, categories, characterMode,
                                          count - Len(result))}
           ELSE {result} :
        result \in QueryReviewWords(ws, p, t, mode, categories, characterMode,
                                    count, TRUE, FALSE)}

----------------------------------------------------------------------------
(* The database the server loads at start-up (initDb reads data/memchin.db):   *)
(* a learner in mid-course. Every row is one that updateProgress writes.       *)

Day == 24 * 60 * 60 * TicksPerSecond

InitialNow == 40 * Day + 1

LongAgo == 1

Recently == InitialNow - 30 * TicksPerSecond

\* The row updateProgress stored when it moved an item to `bucket` at instant t;
\* characterModeOnly is 1 on a row first written by a character-mode session
GradedRow(bucket, t, k, characterModeOnly) ==
    [bucket |-> bucket,
     lastPracticed |-> FormatTimestamp(t),
     nextEligible |-> CalculateNextEligible(bucket, t, k),
     characterModeOnly |-> characterModeOnly]

StoredProgress ==
    (<<NiHao, "hanzi2pinyin">> :> GradedRow(8, Recently, 0, 0))
    @@ (<<NiHao, "hanzi2english">> :> GradedRow(3, LongAgo, RandDen - 1, 0))
    @@ (<<NiHao, "english2hanzi">> :> GradedRow(2, LongAgo, 0, 0))
    @@ (<<NiHao, "english2pinyin">> :> GradedRow(1, Recently, RandDen - 1, 0))
    @@ (<<Ni, "hanzi2english">> :> GradedRow(7, LongAgo, 0, 0))
    @@ (<<Ni, "english2hanzi">> :> GradedRow(6, Recently, 0, 0))
    @@ (<<Ni, "english2pinyin">> :> GradedRow(5, LongAgo, 0, 0))
    @@ (<<De, "hanzi2pinyin">> :> GradedRow(0, LongAgo, 0, 0))
    @@ (<<Hao, "hanzi2pinyin">> :> GradedRow(1, LongAgo, 0, 1))
    @@ (<<Hao, "english2pinyin">> :> GradedRow(4, LongAgo, RandDen - 1, 0))

NoSession ==
    [active |-> FALSE, mode |-> "hanzi2pinyin", characterMode |-> FALSE,
     questions |-> <<>>]

\* client/main.ts 121-130: the module state before a session is started.
\* results maps a written form to the round of its first correct answer.
NoClient ==
    [screen |-> "start", mode |-> "none", questions |-> <<>>, currentIndex |-> 0,
     results |-> <<>>, incorrectThisRound |-> <<>>, roundNumber |-> 1,
     newWords |-> {}, answer |-> <<>>, feedback |-> "none"]

\* The examples column after the import: no word has example sentences yet
NoExamples == [h \in HanziUniverse |-> <<>>]

\* db.ts 380-381: both caches start null. A cache is a set holding what was
\* loaded, and is empty while the variable of the code is null.
NoCache == [allWords |-> {}, ambiguousTranslations |-> {}]

Init ==
    /\ words = ImportedWords
    /\ progress = StoredProgress
    /\ now = InitialNow
    /\ session = NoSession
    /\ pendingAdds = [h \in ManualWords |-> 0]
    /\ last = [op |-> "init"]
    /\ answered = DOMAIN progress
    /\ seeded = {}
    /\ steps = 0
    /\ synonyms = {}
    /\ client = NoClient
    /\ examples = NoExamples
    /\ cache = NoCache

----------------------------------------------------------------------------
(* server/routes/practice.ts: POST /start *)

\* The start requests the model sends: every well-formed combination, and one of
\* each malformed kind
StartRequests ==
    [mode : Modes, count : 1 .. MaxCount,
     wordSelection : {"mixed", "new", "review", "random"},
     categories : CategoryFilters, characterMode : BOOLEAN, hanziList : {<<>>}]
    \cup [mode : {"bogus"}, count : {1}, wordSelection : {"mixed"},
          categories : {{}}, characterMode : {FALSE}, hanziList : {<<>>}]
    \cup [mode : {"hanzi2pinyin"}, count : {0}, wordSelection : {"mixed"},
          categories : {{}}, characterMode : {FALSE}, hanziList : {<<>>}]
    \cup [mode : Modes, count : {0}, wordSelection : {"mixed"},
          categories : {{}}, characterMode : {FALSE},
          hanziList : {<<Hao>>, <<Mao>>}]

\* Variant: every question carries the sentinel of a new word
CreateQuestionAlwaysNew(p, hanzi, mode) == [hanzi |-> hanzi, bucket |-> NULL_BUCKET]

\* createQuestion: the word and its current bucket, null for a word with no row
CreateQuestion(p, hanzi, mode) ==
    [hanzi |-> hanzi,
     bucket |-> IF HasProgress(p, hanzi, mode)
                THEN p[<<hanzi, mode>>].bucket ELSE NULL_BUCKET]

\* The word lists the handler may obtain for a request with a valid mode
SelectedWords(ws, p, t, req) ==
    IF Len(req.hanziList) > 0
    THEN {SelectSeq(req.hanziList, LAMBDA h : h \in DOMAIN ws)}
    ELSE CASE req.wordSelection = "new" ->
                GetNewWords(ws, p, req.mode, req.count, req.categories,
                            req.characterMode)
           [] req.wordSelection = "review" ->
                GetWordsForReview(ws, p, t, req.mode, req.count, req.categories,
                                  req.characterMode, FALSE)
           [] req.wordSelection = "random" ->
                GetWordsForReview(ws, p, t, req.mode, req.count, req.categories,
                                  req.characterMode, TRUE)
           [] OTHER ->
                GetWordsForPractice(ws, p, t, req.mode, req.count, req.categories,
                                    req.characterMode)

\* StartResponses with an empty selection answered like any other
StartResponsesAllowEmpty(ws, p, t, req) ==
    IF req.mode \notin Modes
    THEN {[status |-> 400, error |-> "Valid mode is required", questions |-> <<>>]}
    ELSE IF Len(req.hanziList) = 0 /\ req.count = 0
    THEN {[status |-> 400, error |-> "count is required", questions |-> <<>>]}
    ELSE {[status |-> 200, error |-> "",
           questions |-> [i \in 1 .. Len(ws2) |-> CreateQuestion(p, ws2[i], req.mode)]] :
            ws2 \in SelectedWords(ws, p, t, req)}

\* Every response the handler may give
StartResponses(ws, p, t, req) ==
    IF req.mode \notin Modes
    THEN {[status |-> 400, error |-> "Valid mode is required", questions |-> <<>>]}
    ELSE IF Len(req.hanziList) = 0 /\ req.count = 0
    THEN {[status |-> 400, error |-> "count is required", questions |-> <<>>]}
    ELSE {IF Len(ws2) = 0
          THEN [status |-> 400, error |-> "No words available for practice",
                questions |-> <<>>]
          ELSE [status |-> 200, error |-> "",
                questions |-> [i \in 1 .. Len(ws2) |->
                                  CreateQuestion(p, ws2[i], req.mode)]] :
            ws2 \in SelectedWords(ws, p, t, req)}

StartSession(req) ==
    /\ steps < MaxSteps
    /\ \E resp \in StartResponses(words, progress, now, req) :
        /\ last' = [op |-> "start", req |-> req, status |-> resp.status,
                    error |-> resp.error, questions |-> resp.questions]
        /\ session' = IF resp.status = 200
                      THEN [active |-> TRUE, mode |-> req.mode,
                            characterMode |-> req.characterMode,
                            questions |-> resp.questions]
                      ELSE NoSession
    /\ steps' = steps + 1
    /\ UNCHANGED <<words, progress, now, pendingAdds, answered, seeded, synonyms, client>>
    /\ UNCHANGED <<examples, cache>>

----------------------------------------------------------------------------
(* server/routes/practice.ts: POST /complete *)

\* client/main.ts finishPractice: results is a Map keyed by hanzi, so the result
\* array holds each written form of the session once
RECURSIVE Distinct(_)
Distinct(s) ==
    IF s = <<>> THEN <<>>
    ELSE LET front == Distinct(SubSeq(s, 1, Len(s) - 1))
             x == s[Len(s)]
         IN  IF \E i \in 1 .. Len(front) : front[i] = x
             THEN front ELSE Append(front, x)

\* for (const result of results) updateProgress(...)
RECURSIVE CompleteLoop(_, _, _, _, _, _, _)
CompleteLoop(acc, results, draws, i, mode, characterMode, t) ==
    IF i > Len(results) THEN acc
    ELSE LET r == results[i]
             p2 == UpdateProgress(acc.progress, r.hanzi, mode, r.correctFirstTry,
                                  characterMode, t, draws[i])
         IN  CompleteLoop(
                 [progress |-> p2,
                  upserts |-> Append(acc.upserts,
                                 [hanzi |-> r.hanzi, mode |-> mode,
                                  bucket |-> p2[<<r.hanzi, mode>>].bucket,
                                  nextEligible |-> p2[<<r.hanzi, mode>>].nextEligible])],
                 results, draws, i + 1, mode, characterMode, t)

\* What one result of the session contributes: whether it was right at the first
\* attempt, and the value Math.random() returns when it is rescheduled (the delay
\* of bucket 0 is zero, so the value drawn for a wrong answer changes nothing)
Gradings ==
    [correctFirstTry : {TRUE}, random : 0 .. (RandDen - 1)]
    \cup [correctFirstTry : {FALSE}, random : {0}]

CompleteSession ==
    /\ steps < MaxSteps
    /\ session.active
    /\ LET hs == Distinct([i \in 1 .. Len(session.questions) |->
                              session.questions[i].hanzi])
           mode == session.mode
       IN  \E graded \in [1 .. Len(hs) -> Gradings] :
            LET flags == [i \in 1 .. Len(hs) |-> graded[i].correctFirstTry]
                draws == [i \in 1 .. Len(hs) |-> graded[i].random]
                results == [i \in 1 .. Len(hs) |->
                               [hanzi |-> hs[i], correctFirstTry |-> flags[i]]]
                done == CompleteLoop([progress |-> progress, upserts |-> <<>>],
                                     results, draws, 1, mode,
                                     session.characterMode, now)
            IN  /\ progress' = done.progress
                /\ answered' = answered \cup {<<hs[i], mode>> : i \in 1 .. Len(hs)}
                /\ last' = [op |-> "complete", mode |-> mode,
                            characterMode |-> session.characterMode,
                            results |-> results,
                            before |-> [i \in 1 .. Len(hs) |->
                                          CreateQuestion(progress, hs[i], mode).bucket],
                            upserts |-> done.upserts,
                            status |-> 200,
                            wordsReviewed |-> Len(results),
                            newWordsLearned |->
                                Cardinality({i \in 1 .. Len(hs) : flags[i]}),
                            progress |-> [i \in 1 .. Len(hs) |->
                                            CreateQuestion(done.progress, hs[i], mode)]]
    /\ session' = NoSession
    /\ steps' = steps + 1
    /\ UNCHANGED <<words, now, pendingAdds, seeded, synonyms, client>>
    /\ UNCHANGED <<examples, cache>>

----------------------------------------------------------------------------
(* server/routes/words.ts: POST /words and DELETE /words/:hanzi/progress *)

\* insertWords: INSERT ... ON CONFLICT(hanzi) DO UPDATE
InsertWord(ws, hanzi, row) ==
    [h \in DOMAIN ws \cup {hanzi} |-> IF h = hanzi THEN row ELSE ws[h]]

\* for (const mode of modes) upsertProgress(hanzi, mode, 0, now, false)
RECURSIVE InitializeProgress(_, _, _, _)
InitializeProgress(p, hanzi, i, t) ==
    IF i > Len(ModeList) THEN p
    ELSE InitializeProgress(
             UpsertProgress(p, hanzi, ModeList[i], 0, FormatTimestamp(t), FALSE, t),
             hanzi, i + 1, t)

\* The handler up to its await on generateExamples: validation and duplicate check
AddWordBegin(hanzi, wellFormed) ==
    /\ steps < MaxSteps
    /\ IF ~wellFormed
       THEN /\ last' = [op |-> "addWord", hanzi |-> hanzi, status |-> 400]
            /\ UNCHANGED pendingAdds
       ELSE IF hanzi \in DOMAIN words
       THEN /\ last' = [op |-> "addWord", hanzi |-> hanzi, status |-> 409]
            /\ UNCHANGED pendingAdds
       ELSE /\ last' = [op |-> "addWordPending", hanzi |-> hanzi, status |-> 0]
            /\ pendingAdds' = [pendingAdds EXCEPT ![hanzi] = @ + 1]
    /\ steps' = steps + 1
    /\ UNCHANGED <<words, progress, now, session, answered, seeded, synonyms, client>>
    /\ UNCHANGED <<examples, cache>>

\* The handler after generateExamples settles: insert, initialise progress, reply
AddWordFinish(hanzi) ==
    /\ pendingAdds[hanzi] > 0
    /\ LET rank == IF hanzi \in DOMAIN FrequencyData
                   THEN FrequencyData[hanzi] ELSE NULL_RANK
           row == [pinyin |-> ManualEntries[hanzi].pinyin,
                   english |-> ManualEntries[hanzi].english,
                   translatable |-> TRUE, rank |-> rank,
                   hanziRank |-> IF Len(hanzi) = 1 THEN rank ELSE NULL_RANK,
                   categories |-> {"greeting"}, manual |-> TRUE]
       IN  /\ words' = InsertWord(words, hanzi, row)
           /\ progress' = InitializeProgress(progress, hanzi, 1, now)
    /\ pendingAdds' = [pendingAdds EXCEPT ![hanzi] = @ - 1]
    /\ seeded' = seeded \cup {<<hanzi, m>> : m \in Modes}
    /\ last' = [op |-> "addWord", hanzi |-> hanzi, status |-> 200]
    /\ UNCHANGED <<now, session, answered, steps, synonyms, client>>
    /\ UNCHANGED <<examples, cache>>

ResetProgress(hanzi) ==
    /\ steps < MaxSteps
    /\ IF hanzi \notin DOMAIN words
       THEN /\ last' = [op |-> "reset", hanzi |-> hanzi, status |-> 404]
            /\ UNCHANGED <<progress, answered, seeded>>
       ELSE /\ progress' = DeleteProgress(progress, hanzi)
            /\ answered' = {k \in answered : k[1] # hanzi}
            /\ seeded' = {k \in seeded : k[1] # hanzi}
            /\ last' = [op |-> "reset", hanzi |-> hanzi, status |-> 200]
    /\ steps' = steps + 1
    /\ UNCHANGED <<words, now, session, pendingAdds, synonyms, client>>
    /\ UNCHANGED <<examples, cache>>

----------------------------------------------------------------------------
(* The clock *)

Advances == {1, 50 * TicksPerSecond}

Tick(d) ==
    /\ steps < MaxSteps
    /\ now' = now + d
    /\ last' = [op |-> "tick"]
    /\ steps' = steps + 1
    /\ UNCHANGED <<words, progress, session, pendingAdds, answered, seeded, synonyms, client>>
    /\ UNCHANGED <<examples, cache>>

----------------------------------------------------------------------------

Next ==
    \/ \E req \in StartRequests : StartSession(req)
    \/ CompleteSession
    \/ \E h \in ManualWords \cup {Ni} : \E wellFormed \in BOOLEAN :
          AddWordBegin(h, wellFormed)
    \/ \E h \in ManualWords : AddWordFinish(h)
    \/ \E h \in HanziUniverse : ResetProgress(h)
    \/ \E d \in Advances : Tick(d)

Spec == Init /\ [][Next]_vars

----------------------------------------------------------------------------
(* Properties of the scheduler (server/services/srs.ts)                      *)

\* C1: grading an item whose current bucket is b (0 for an item with no record)
\* stores min(b + 1, 8) when the result is correct and 0 when it is not; a correct
\* result at bucket 8 therefore stores 8 again.
C1_GradingStoresTransition ==
    last.op = "complete" =>
        \A i \in 1 .. Len(last.results) :
            LET b == IF last.before[i] = NULL_BUCKET THEN 0 ELSE last.before[i]
                expected == IF last.results[i].correctFirstTry
                            THEN (IF b + 1 < 8 THEN b + 1 ELSE 8)
                            ELSE 0
                key == <<last.results[i].hanzi, last.mode>>
            IN  /\ b \in 0 .. 8
                /\ key \in DOMAIN progress
                /\ progress[key].bucket = expected
                /\ last.progress[i].bucket = expected

\* C1, its case reached: an item with no record graded correct and stored at
\* bucket 1
C1_Witness ==
    /\ last.op = "complete"
    /\ \E i \in 1 .. Len(last.results) :
        /\ last.before[i] = NULL_BUCKET
        /\ last.results[i].correctFirstTry
        /\ progress[<<last.results[i].hanzi, last.mode>>].bucket = 1

\* C2: whatever add-word, complete-session and reset-progress requests have been
\* served, every stored progress record has a bucket in 0 .. MAX_BUCKET (0 .. 8).
C2_BucketInRange ==
    /\ MAX_BUCKET = 8
    /\ \A key \in DOMAIN progress : progress[key].bucket \in 0 .. MAX_BUCKET

\* C2, its case reached: an item at bucket 8 graded correct, the one transition
\* the cap is there for
C2_Witness ==
    /\ last.op = "complete"
    /\ \E i \in 1 .. Len(last.results) :
        /\ last.before[i] = MAX_BUCKET
        /\ last.results[i].correctFirstTry

\* C3 as the spec states it: the stored nextEligible of a graded attempt made at
\* instant now with new bucket b lies within [now + 0.75 * delay(b),
\* now + 1.25 * delay(b)]. (Stored values are whole seconds; all terms are
\* multiplied by 4 to stay in the integers.)
C3_Original ==
    last.op = "complete" =>
        \A i \in 1 .. Len(last.upserts) :
            LET delay == BUCKET_DELAYS_MINUTES[last.upserts[i].bucket + 1]
                             * 60 * TicksPerSecond
                stored == last.upserts[i].nextEligible * TicksPerSecond
            IN  /\ 4 * stored >= 4 * now + 3 * delay
                /\ 4 * stored <= 4 * now + 5 * delay

\* C3, amended: the stored nextEligible has its fraction of a second cut off, so
\* it lies within (now + 0.75 * delay(b) - 1 second, now + 1.25 * delay(b)]: it
\* can fall short of the lower end of the jitter window by less than one second.
C3_StoredWithinWindowLessOneSecond ==
    last.op = "complete" =>
        \A i \in 1 .. Len(last.upserts) :
            LET delay == BUCKET_DELAYS_MINUTES[last.upserts[i].bucket + 1]
                             * 60 * TicksPerSecond
                stored == last.upserts[i].nextEligible * TicksPerSecond
                key == <<last.upserts[i].hanzi, last.mode>>
            IN  /\ 4 * (stored + TicksPerSecond) > 4 * now + 3 * delay
                /\ 4 * stored <= 4 * now + 5 * delay
                /\ progress[key].nextEligible = last.upserts[i].nextEligible

\* C3, its case reached: an attempt graded at an instant that is not a whole
\* second, rescheduled with a delay of at least five minutes
C3_Witness ==
    /\ last.op = "complete"
    /\ now % TicksPerSecond # 0
    /\ \E i \in 1 .. Len(last.upserts) : last.upserts[i].bucket >= 2

----------------------------------------------------------------------------
(* Properties of word selection (server/db.ts, POST /start)                  *)
(*                                                                           *)
(* While last.op = "start" the tables and the clock are those the selection  *)
(* was made from. An item "matches the filters" when getWordFilters' clauses *)
(* on the word accept it: translatable for the three translation modes, in a *)
(* requested category, ranked in the column the selection orders by, and in  *)
(* character mode a part of a practised word.                                *)

\* C4 as the spec states it: with N due items (a record in the mode with
\* nextEligible <= now) and M new items (no record in the mode), all matching
\* the filters, and N < requested <= N + M, mixed selection returns exactly the N
\* due items in ascending nextEligible order, then requested - N new items in
\* ascending rank order, and no item twice.
C4_Original ==
    LET req == last.req
        m == req.mode
        cm == req.characterMode
        sel == [i \in 1 .. Len(last.questions) |-> last.questions[i].hanzi]
        picked == {sel[i] : i \in 1 .. Len(sel)}
        matching == {h \in DOMAIN words :
                       WordFilter(words, progress, h, m, req.categories, cm)}
        due == {h \in matching :
                       /\ <<h, m>> \in DOMAIN progress
                       /\ progress[<<h, m>>].nextEligible * TicksPerSecond <= now}
        new == {h \in matching :
                       <<h, m>> \notin DOMAIN progress}
        N == Cardinality(due)
        M == Cardinality(new)
        rank == [h \in DOMAIN words |-> RankColumn(words[h], cm)]
        asked == /\ last.op = "start"
                 /\ m \in Modes
                 /\ Len(req.hanziList) = 0
                 /\ req.count > 0
                 /\ req.wordSelection = "mixed"
    IN  (asked /\ N < req.count /\ req.count <= N + M) =>
            /\ last.status = 200
            /\ Len(sel) = req.count
            /\ {sel[i] : i \in 1 .. N} = due
            /\ \A i, j \in 1 .. N :
                   i < j => progress[<<sel[i], m>>].nextEligible
                               <= progress[<<sel[j], m>>].nextEligible
            /\ \A i \in (N + 1) .. Len(sel) :
                   /\ sel[i] \in new
                   /\ \A h \in new \ {sel[j] : j \in (N + 1) .. i} :
                          rank[sel[i]] <= rank[h]
            /\ \A i, j \in 1 .. Len(sel) : sel[i] = sel[j] => i = j

\* C4, amended: the same, where in word mode a record written only by
\* character-mode practice (character_mode_only = 1) does not make its item due
\* and the item is selected as a new one.
C4_MixedDueThenNew ==
    LET req == last.req
        m == req.mode
        cm == req.characterMode
        sel == [i \in 1 .. Len(last.questions) |-> last.questions[i].hanzi]
        picked == {sel[i] : i \in 1 .. Len(sel)}
        matching == {h \in DOMAIN words :
                       WordFilter(words, progress, h, m, req.categories, cm)}
        due == {h \in matching :
                       /\ <<h, m>> \in DOMAIN progress
                       /\ (cm \/ progress[<<h, m>>].characterModeOnly = 0)
                       /\ progress[<<h, m>>].nextEligible * TicksPerSecond <= now}
        new == {h \in matching :
                       \/ <<h, m>> \notin DOMAIN progress
                       \/ (~cm /\ progress[<<h, m>>].characterModeOnly = 1)}
        N == Cardinality(due)
        M == Cardinality(new)
        rank == [h \in DOMAIN words |-> RankColumn(words[h], cm)]
        asked == /\ last.op = "start"
                 /\ m \in Modes
                 /\ Len(req.hanziList) = 0
                 /\ req.count > 0
                 /\ req.wordSelection = "mixed"
    IN  (asked /\ N < req.count /\ req.count <= N + M) =>
            /\ last.status = 200
            /\ Len(sel) = req.count
            /\ {sel[i] : i \in 1 .. N} = due
            /\ \A i, j \in 1 .. N :
                   i < j => progress[<<sel[i], m>>].nextEligible
                               <= progress[<<sel[j], m>>].nextEligible
            /\ \A i \in (N + 1) .. Len(sel) :
                   /\ sel[i] \in new
                   /\ \A h \in new \ {sel[j] : j \in (N + 1) .. i} :
                          rank[sel[i]] <= rank[h]
            /\ \A i, j \in 1 .. Len(sel) : sel[i] = sel[j] => i = j

\* C4, its case reached: a mixed selection in word mode with a due item, room
\* for two more, and an item with a character-mode-only record among the new
C4_Witness ==
    LET req == last.req
        m == req.mode
        cm == req.characterMode
        sel == [i \in 1 .. Len(last.questions) |-> last.questions[i].hanzi]
        picked == {sel[i] : i \in 1 .. Len(sel)}
        matching == {h \in DOMAIN words :
                       WordFilter(words, progress, h, m, req.categories, cm)}
        due == {h \in matching :
                       /\ <<h, m>> \in DOMAIN progress
                       /\ (cm \/ progress[<<h, m>>].characterModeOnly = 0)
                       /\ progress[<<h, m>>].nextEligible * TicksPerSecond <= now}
        new == {h \in matching :
                       \/ <<h, m>> \notin DOMAIN progress
                       \/ (~cm /\ progress[<<h, m>>].characterModeOnly = 1)}
        N == Cardinality(due)
        M == Cardinality(new)
        rank == [h \in DOMAIN words |-> RankColumn(words[h], cm)]
        asked == /\ last.op = "start"
                 /\ m \in Modes
                 /\ Len(req.hanziList) = 0
                 /\ req.count > 0
                 /\ req.wordSelection = "mixed"
    IN  /\ asked /\ N >= 1 /\ N + 2 <= req.count /\ req.count <= N + M
        /\ Len(sel) = req.count
        /\ \E i \in (N + 1) .. Len(sel) : <<sel[i], m>> \in DOMAIN progress

\* C5 as the spec states it: mixed selection returns at most count items, returns
\* a new item (no record in the mode) only when every due item (a record in the
\* mode with nextEligible <= now) matching the filters is in the result, and
\* returns due items only when at least count items are due.
C5_Original ==
    LET req == last.req
        m == req.mode
        cm == req.characterMode
        sel == [i \in 1 .. Len(last.questions) |-> last.questions[i].hanzi]
        picked == {sel[i] : i \in 1 .. Len(sel)}
        matching == {h \in DOMAIN words :
                       WordFilter(words, progress, h, m, req.categories, cm)}
        due == {h \in matching :
                       /\ <<h, m>> \in DOMAIN progress
                       /\ progress[<<h, m>>].nextEligible * TicksPerSecond <= now}
        new == {h \in matching :
                       <<h, m>> \notin DOMAIN progress}
        N == Cardinality(due)
        M == Cardinality(new)
        rank == [h \in DOMAIN words |-> RankColumn(words[h], cm)]
        asked == /\ last.op = "start"
                 /\ m \in Modes
                 /\ Len(req.hanziList) = 0
                 /\ req.count > 0
                 /\ req.wordSelection = "mixed"
    IN  asked =>
            /\ Len(sel) <= req.count
            /\ picked \subseteq due \cup new
            /\ (picked \cap new # {} => due \subseteq picked)
            /\ (N >= req.count => picked \subseteq due /\ Len(sel) = req.count)

\* C5, amended: the same, where in word mode a record written only by
\* character-mode practice does not make its item due and the item counts as new.
C5_MixedDueBeforeNew ==
    LET req == last.req
        m == req.mode
        cm == req.characterMode
        sel == [i \in 1 .. Len(last.questions) |-> last.questions[i].hanzi]
        picked == {sel[i] : i \in 1 .. Len(sel)}
        matching == {h \in DOMAIN words :
                       WordFilter(words, progress, h, m, req.categories, cm)}
        due == {h \in matching :
                       /\ <<h, m>> \in DOMAIN progress
                       /\ (cm \/ progress[<<h, m>>].characterModeOnly = 0)
                       /\ progress[<<h, m>>].nextEligible * TicksPerSecond <= now}
        new == {h \in matching :
                       \/ <<h, m>> \notin DOMAIN progress
                       \/ (~cm /\ progress[<<h, m>>].characterModeOnly = 1)}
        N == Cardinality(due)
        M == Cardinality(new)
        rank == [h \in DOMAIN words |-> RankColumn(words[h], cm)]
        asked == /\ last.op = "start"
                 /\ m \in Modes
                 /\ Len(req.hanziList) = 0
                 /\ req.count > 0
                 /\ req.wordSelection = "mixed"
    IN  asked =>
            /\ Len(sel) <= req.count
            /\ picked \subseteq due \cup new
            /\ (picked \cap new # {} => due \subseteq picked)
            /\ (N >= req.count => picked \subseteq due /\ Len(sel) = req.count)

\* C5, its case reached: at least count items are due, two or more, while new
\* items matching the filters exist and none of them is returned
C5_Witness ==
    LET req == last.req
        m == req.mode
        cm == req.characterMode
        sel == [i \in 1 .. Len(last.questions) |-> last.questions[i].hanzi]
        picked == {sel[i] : i \in 1 .. Len(sel)}
        matching == {h \in DOMAIN words :
                       WordFilter(words, progress, h, m, req.categories, cm)}
        due == {h \in matching :
                       /\ <<h, m>> \in DOMAIN progress
                       /\ (cm \/ progress[<<h, m>>].characterModeOnly = 0)
                       /\ progress[<<h, m>>].nextEligible * TicksPerSecond <= now}
        new == {h \in matching :
                       \/ <<h, m>> \notin DOMAIN progress
                       \/ (~cm /\ progress[<<h, m>>].characterModeOnly = 1)}
        N == Cardinality(due)
        M == Cardinality(new)
        rank == [h \in DOMAIN words |-> RankColumn(words[h], cm)]
        asked == /\ last.op = "start"
                 /\ m \in Modes
                 /\ Len(req.hanziList) = 0
                 /\ req.count > 0
                 /\ req.wordSelection = "mixed"
    IN  /\ asked /\ req.count >= 2 /\ N >= req.count /\ M >= 1
        /\ last.status = 200
        /\ picked \cap new = {}

\* C6 as the spec states it: every item the review and the random-review
\* selections return has a progress record in the requested mode whose
\* nextEligible is at or before the current time.
C6_Original ==
    LET req == last.req
        m == req.mode
        cm == req.characterMode
        sel == [i \in 1 .. Len(last.questions) |-> last.questions[i].hanzi]
        asked == /\ last.op = "start"
                 /\ m \in Modes
                 /\ Len(req.hanziList) = 0
                 /\ req.count > 0
    IN  (asked /\ req.wordSelection \in {"review", "random"}) =>
            \A i \in 1 .. Len(sel) :
                /\ <<sel[i], m>> \in DOMAIN progress
                /\ progress[<<sel[i], m>>].nextEligible * TicksPerSecond <= now

\* C6, amended: neither selection filters on nextEligible. Every item they return
\* matches the filters and has a progress record in the requested mode (in word
\* mode, one that is not character-mode-only), never more than count items and
\* no item twice; review returns the records with the earliest nextEligible in
\* ascending order, so an item not yet due is returned only when every due item
\* is; random-review returns any of the records in any order.
C6_ReviewReturnsRecordedItems ==
    LET req == last.req
        m == req.mode
        cm == req.characterMode
        sel == [i \in 1 .. Len(last.questions) |-> last.questions[i].hanzi]
        asked == /\ last.op = "start"
                 /\ m \in Modes
                 /\ Len(req.hanziList) = 0
                 /\ req.count > 0
        rows == {h \in DOMAIN words :
                    /\ WordFilter(words, progress, h, m, req.categories, cm)
                    /\ <<h, m>> \in DOMAIN progress
                    /\ (cm \/ progress[<<h, m>>].characterModeOnly = 0)}
    IN  (asked /\ req.wordSelection \in {"review", "random"}) =>
            /\ Len(sel) = Min(req.count, Cardinality(rows))
            /\ \A i \in 1 .. Len(sel) : sel[i] \in rows
            /\ \A i, j \in 1 .. Len(sel) : sel[i] = sel[j] => i = j
            /\ req.wordSelection = "review" =>
                 \A i \in 1 .. Len(sel) :
                     \A h \in rows \ {sel[j] : j \in 1 .. i} :
                         progress[<<sel[i], m>>].nextEligible
                             <= progress[<<h, m>>].nextEligible

\* C6, its case reached: a review selection that returns an item not yet due
\* after an item that is due
C6_Witness ==
    LET req == last.req
        m == req.mode
        cm == req.characterMode
        sel == [i \in 1 .. Len(last.questions) |-> last.questions[i].hanzi]
        asked == /\ last.op = "start"
                 /\ m \in Modes
                 /\ Len(req.hanziList) = 0
                 /\ req.count > 0
    IN  /\ asked /\ req.wordSelection = "review"
        /\ \E i, j \in 1 .. Len(sel) :
            /\ i < j
            /\ progress[<<sel[i], m>>].nextEligible * TicksPerSecond <= now
            /\ progress[<<sel[j], m>>].nextEligible * TicksPerSecond > now

\* C7 as the spec states it: New selection returns at most count items, only
\* items with no progress record in the requested mode, in ascending rank order.
C7_Original ==
    LET req == last.req
        m == req.mode
        cm == req.characterMode
        sel == [i \in 1 .. Len(last.questions) |-> last.questions[i].hanzi]
        asked == /\ last.op = "start"
                 /\ m \in Modes
                 /\ Len(req.hanziList) = 0
                 /\ req.count > 0
    IN  (asked /\ req.wordSelection = "new") =>
            /\ Len(sel) <= req.count
            /\ \A i \in 1 .. Len(sel) : <<sel[i], m>> \notin DOMAIN progress
            /\ \A i, j \in 1 .. Len(sel) :
                   i < j => RankColumn(words[sel[i]], cm) <= RankColumn(words[sel[j]], cm)

\* C7, amended: New selection returns at most count items, each matching the
\* filters and either without a progress record in the requested mode or, in word
\* mode, with a record that is character-mode-only, in ascending order of the
\* word rank (of the character rank in character mode).
C7_NewReturnsUnrecordedItems ==
    LET req == last.req
        m == req.mode
        cm == req.characterMode
        sel == [i \in 1 .. Len(last.questions) |-> last.questions[i].hanzi]
        asked == /\ last.op = "start"
                 /\ m \in Modes
                 /\ Len(req.hanziList) = 0
                 /\ req.count > 0
    IN  (asked /\ req.wordSelection = "new") =>
            /\ Len(sel) <= req.count
            /\ \A i \in 1 .. Len(sel) :
                   /\ WordFilter(words, progress, sel[i], m, req.categories, cm)
                   /\ \/ <<sel[i], m>> \notin DOMAIN progress
                      \/ (~cm /\ progress[<<sel[i], m>>].characterModeOnly = 1)
            /\ \A i, j \in 1 .. Len(sel) :
                   i < j => RankColumn(words[sel[i]], cm) <= RankColumn(words[sel[j]], cm)

\* C7, its case reached: a New selection in word mode that returns an item with
\* no record followed by an item whose record is character-mode-only
C7_Witness ==
    LET req == last.req
        m == req.mode
        cm == req.characterMode
        sel == [i \in 1 .. Len(last.questions) |-> last.questions[i].hanzi]
        asked == /\ last.op = "start"
                 /\ m \in Modes
                 /\ Len(req.hanziList) = 0
                 /\ req.count > 0
    IN  /\ asked /\ req.wordSelection = "new" /\ ~cm
        /\ \E i, j \in 1 .. Len(sel) :
            /\ i < j
            /\ <<sel[i], m>> \notin DOMAIN progress
            /\ <<sel[j], m>> \in DOMAIN progress

----------------------------------------------------------------------------
(* Properties of the progress table                                          *)

\* C8 as the spec states it: a progress record exists for (item, mode) if and
\* only if the item has been graded in that mode (since its progress was last
\* reset); nothing but a session creates a record.
C8_Original ==
    DOMAIN progress = answered

\* C8, amended: a progress record exists for (item, mode) if and only if, since
\* the item's progress was last reset, a completed session graded the item in
\* that mode or the item was added by hand: add-word creates a bucket-0 record
\* in each of the four modes for the word it inserts.
C8_RecordIffGradedOrAdded ==
    /\ DOMAIN progress = answered \cup seeded
    /\ \A key \in seeded \ answered :
           /\ words[key[1]].manual
           /\ progress[key].bucket = 0
           /\ progress[key].characterModeOnly = 0

\* C8, its case reached: a word added by hand holds a record in each of the four
\* modes and has been graded in none
C8_Witness ==
    \E h \in DOMAIN words :
        /\ last.op = "addWord" /\ last.status = 200 /\ last.hanzi = h
        /\ \A m \in Modes : <<h, m>> \in DOMAIN progress /\ <<h, m>> \notin answered

\* C9: grading item h in mode m changes the progress record of (h, m) and no
\* other: a completed session leaves the record of every pair it did not grade
\* as it was, the graded items' records in the other modes included, and
\* creates no record but those of the pairs it graded.
C9_GradingChangesOnlyGradedPair ==
    [][last'.op = "complete" =>
          LET graded == {<<last'.results[i].hanzi, last'.mode>> :
                            i \in 1 .. Len(last'.results)}
          IN  /\ DOMAIN progress' = DOMAIN progress \cup graded
              /\ \A key \in DOMAIN progress \ graded : progress'[key] = progress[key]
              /\ words' = words
       ]_vars

\* C9, its case reached: an item graded to bucket 8 in one mode that holds a
\* record in a second mode and none in a third
C9_Witness ==
    /\ last.op = "complete"
    /\ \E i \in 1 .. Len(last.results) :
        LET h == last.results[i].hanzi
        IN  /\ last.before[i] = 7
            /\ progress[<<h, last.mode>>].bucket = 8
            /\ \E m2 \in Modes \ {last.mode} : <<h, m2>> \in DOMAIN progress
            /\ \E m3 \in Modes \ {last.mode} : <<h, m3>> \notin DOMAIN progress


----------------------------------------------------------------------------
(* server/db.ts: translations shared between words, and pinyin synonyms *)

\* englishTranslations.join('|')
RECURSIVE Join(_)
Join(list) ==
    IF list = <<>> THEN <<>>
    ELSE IF Len(list) = 1 THEN list[1]
    ELSE list[1] \o <<"|">> \o Join(Tail(list))

NormalizedTranslations(englishTranslations) ==
    Trim(ToLowerCase(Join(englishTranslations)))

\* The translations the loop over getAllWords() meets a second time
LoadAmbiguousTranslations(ws) ==
    {NormalizedTranslations(ws[h1].english) :
        h1 \in {h \in DOMAIN ws :
                  \E h2 \in DOMAIN ws \ {h} :
                      NormalizedTranslations(ws[h2].english)
                          = NormalizedTranslations(ws[h].english)}}

\* IsAmbiguousTranslation with no word of the catalog counted
IsAmbiguousTranslationNever(ws, englishTranslations) == FALSE

IsAmbiguousTranslation(ws, englishTranslations) ==
    NormalizedTranslations(englishTranslations) \in LoadAmbiguousTranslations(ws)

\* AddPinyinSynonym with every insertion ignored
AddPinyinSynonymIgnored(syn, hanzi, synonymPinyin) == syn

\* INSERT OR IGNORE INTO pinyin_synonyms (hanzi, synonym_pinyin)
AddPinyinSynonym(syn, hanzi, synonymPinyin) == syn \cup {<<hanzi, synonymPinyin>>}

IsPinyinSynonym(syn, hanzi, pinyin) == <<hanzi, pinyin>> \in syn

----------------------------------------------------------------------------
(* server/routes/practice.ts: POST /answer and POST /synonym *)

ToneDigits == {"1", "2", "3", "4", "5"}

\* lastNeutralToneMismatch, which the route imports from services/pinyin.ts: the
\* two normalised readings are the same but for a tone digit that ends one of
\* them and is missing at the end of the other
LastNeutralToneMismatch(a, b) ==
    LET Extra(long, short) ==
            /\ Len(long) = Len(short) + 1
            /\ SubSeq(long, 1, Len(short)) = short
            /\ long[Len(long)] \in ToneDigits
            /\ short # <<>>
            /\ short[Len(short)] \notin ToneDigits
    IN  Extra(a, b) \/ Extra(b, a)

\* case 'hanzi2pinyin'
AnswerHanzi2Pinyin(ws, syn, hanzi, answer) ==
    LET word == ws[hanzi]
        correct == PinyinMatches(answer, word.pinyin)
        na == NormalizePinyin(answer)
        ne == NormalizePinyin(word.pinyin)
    IN  [correct |-> correct,
         synonym |-> /\ ~correct
                     /\ \/ IsPinyinSynonym(syn, hanzi, na)
                        \/ (Len(hanzi) > 1 /\ LastNeutralToneMismatch(na, ne))]

\* case 'hanzi2english'
AnswerHanzi2English(ws, syn, hanzi, answer) ==
    [correct |-> EnglishMatches(answer, ws[hanzi].english), synonym |-> FALSE]

\* case 'english2hanzi'
AnswerEnglish2Hanzi(ws, syn, hanzi, answer) ==
    LET isExactMatch == HanziMatches(answer, hanzi)
        isSynonym == ~isExactMatch /\ IsAmbiguousTranslation(ws, ws[hanzi].english)
    IN  [correct |-> isExactMatch, synonym |-> isSynonym]

\* AnswerEnglish2Pinyin with the tone rule applied to words of one character too
AnswerEnglish2PinyinAnyLength(ws, syn, hanzi, answer) ==
    LET normalizedAnswer == NormalizePinyin(answer)
        normalizedExpected == NormalizePinyin(ws[hanzi].pinyin)
        correct == normalizedAnswer = normalizedExpected
    IN  [correct |-> correct,
         synonym |-> /\ ~correct
                     /\ \/ IsPinyinSynonym(syn, hanzi, normalizedAnswer)
                        \/ LastNeutralToneMismatch(normalizedAnswer, normalizedExpected)
                        \/ IsAmbiguousTranslation(ws, ws[hanzi].english)]

\* case 'english2pinyin'
AnswerEnglish2Pinyin(ws, syn, hanzi, answer) ==
    LET normalizedAnswer == NormalizePinyin(answer)
        normalizedExpected == NormalizePinyin(ws[hanzi].pinyin)
        correct == normalizedAnswer = normalizedExpected
    IN  [correct |-> correct,
         synonym |-> /\ ~correct
                     /\ \/ IsPinyinSynonym(syn, hanzi, normalizedAnswer)
                        \/ (/\ Len(hanzi) > 1
                            /\ LastNeutralToneMismatch(normalizedAnswer,
                                                       normalizedExpected))
                        \/ IsAmbiguousTranslation(ws, ws[hanzi].english)]

\* The response of POST /answer. No case of the switch matches a mode that is
\* not one of the four: correct stays undefined and is left out of the JSON
\* body (correctDefined is FALSE then), synonym keeps its initial false
AnswerResponse(ws, syn, req) ==
    IF req.hanzi \notin DOMAIN ws
    THEN [status |-> 404, error |-> "Word not found", correctDefined |-> FALSE,
          correct |-> FALSE, synonym |-> FALSE, correctAnswers |-> <<>>]
    ELSE LET word == ws[req.hanzi]
             verdict ==
                 CASE req.mode = "hanzi2pinyin" ->
                        AnswerHanzi2Pinyin(ws, syn, req.hanzi, req.answer)
                   [] req.mode = "hanzi2english" ->
                        AnswerHanzi2English(ws, syn, req.hanzi, req.answer)
                   [] req.mode = "english2hanzi" ->
                        AnswerEnglish2Hanzi(ws, syn, req.hanzi, req.answer)
                   [] req.mode = "english2pinyin" ->
                        AnswerEnglish2Pinyin(ws, syn, req.hanzi, req.answer)
                   [] OTHER -> [correct |-> FALSE, synonym |-> FALSE]
         IN  [status |-> 200, error |-> "", correctDefined |-> req.mode \in Modes,
              correct |-> verdict.correct, synonym |-> verdict.synonym,
              correctAnswers |->
                  IF req.mode = "english2hanzi" THEN <<req.hanzi>>
                  ELSE IF req.mode \in {"hanzi2pinyin", "english2pinyin"}
                  THEN <<ToNumberedPinyin(word.pinyin)>>
                  ELSE word.english]

\* Words of the catalog besides the imported ones: Nin has the translation of
\* Ni, MaMa and Ma have the same two translations in a different order; Ma was
\* added by hand and is not in the frequency file, so it has no rank
Nin == <<"nin">>
MaMa == <<"ma", "ma">>
Ma == <<"ma">>

AnswerCatalog ==
    ImportedWords
    @@ (Nin :> [pinyin |-> <<"n", "i2", "n">>, english |-> <<<<"You">>>>,
                translatable |-> TRUE, rank |-> 5, hanziRank |-> 4,
                categories |-> {"people"}, manual |-> FALSE])
    @@ (MaMa :> [pinyin |-> <<"m", "a1", Space, "m", "a">>,
                 english |-> <<<<"mother">>, <<"mom">>>>,
                 translatable |-> TRUE, rank |-> 6, hanziRank |-> NULL_RANK,
                 categories |-> {"people"}, manual |-> FALSE])
    @@ (Ma :> [pinyin |-> <<"m", "a1">>, english |-> <<<<"mom">>, <<"mother">>>>,
               translatable |-> TRUE, rank |-> NULL_RANK, hanziRank |-> NULL_RANK,
               categories |-> {"greeting"}, manual |-> TRUE])

\* The bodies of POST /answer: for each mode and word, answers that are right,
\* wrong and nearly right, some with capitals or white space; Mao is not in the
\* catalog and "bogus" is not a mode
PinyinAnswerRequests ==
    [mode : {"hanzi2pinyin", "english2pinyin"}, hanzi : {NiHao},
     answer : {<<"n", "i3", Space, "h", "a3", "o">>,
               <<"n", "i", "2", "h", "a", "o", "3">>,
               <<Space, "N", "i2", Space, "h", "a3", "o", Space>>,
               <<"n", "i", "3", "h", "a", "o">>}]
    \cup [mode : {"hanzi2pinyin", "english2pinyin"}, hanzi : {Ni},
          answer : {<<"N", "i", "3">>, <<"n", "i", "2">>, <<"n", "i">>}]
    \cup [mode : {"hanzi2pinyin", "english2pinyin"}, hanzi : {De},
          answer : {<<"d", "e", "5">>}]
    \cup [mode : {"hanzi2pinyin", "english2pinyin"}, hanzi : {MaMa},
          answer : {<<"m", "a", "1", "m", "a", "5">>, <<"m", "a", "1">>}]

HanziAnswerRequests ==
    [mode : {"english2hanzi"}, hanzi : {Ni}, answer : {Ni, <<"ni", Space>>, Nin}]
    \cup [mode : {"english2hanzi"}, hanzi : {NiHao}, answer : {NiHao, Ni}]
    \cup [mode : {"english2hanzi"}, hanzi : {MaMa}, answer : {MaMa, Ma}]

EnglishAnswerRequests ==
    [mode : {"hanzi2english"}, hanzi : {Ni}, answer : {<<"You">>, <<"hello">>}]
    \cup [mode : {"hanzi2english"}, hanzi : {MaMa, De}, answer : {<<"mom">>}]

AnswerRequests ==
    PinyinAnswerRequests \cup HanziAnswerRequests \cup EnglishAnswerRequests
    \cup [mode : Modes, hanzi : {Mao}, answer : {<<"m", "a1", "o">>}]
    \cup [mode : {"bogus"}, hanzi : {NiHao, Mao},
          answer : {<<"n", "i3", Space, "h", "a3", "o">>}]

\* SubmitAnswer that also stores the answer of a near-miss as a synonym
SubmitAnswerRecording(req) ==
    /\ steps < MaxSteps
    /\ last' = [op |-> "answer", mode |-> req.mode, hanzi |-> req.hanzi,
                answer |-> req.answer,
                response |-> AnswerResponse(words, synonyms, req)]
    /\ synonyms' = IF AnswerResponse(words, synonyms, req).synonym
                   THEN AddPinyinSynonym(synonyms, req.hanzi,
                                         NormalizePinyin(req.answer))
                   ELSE synonyms
    /\ steps' = steps + 1
    /\ UNCHANGED <<words, progress, now, session, pendingAdds, answered, seeded,
                   client>>
    /\ UNCHANGED <<examples, cache>>

SubmitAnswer(req) ==
    /\ steps < MaxSteps
    /\ last' = [op |-> "answer", mode |-> req.mode, hanzi |-> req.hanzi,
                answer |-> req.answer,
                response |-> AnswerResponse(words, synonyms, req)]
    /\ steps' = steps + 1
    /\ UNCHANGED <<words, progress, now, session, pendingAdds, answered, seeded,
                   synonyms, client>>
    /\ UNCHANGED <<examples, cache>>

\* The bodies of POST /synonym: an empty string is a missing field
SynonymRequests ==
    [hanzi : {NiHao, Ni, Mao},
     synonymPinyin : {<<"N", "i2", Space, "h", "a3", "o">>, <<"n", "i", "2">>}]
    \cup [hanzi : {<<>>}, synonymPinyin : {<<"n", "i", "2">>}]
    \cup [hanzi : {Ni}, synonymPinyin : {<<>>}]

MarkSynonym(req) ==
    /\ steps < MaxSteps
    /\ LET status == IF req.hanzi = <<>> \/ req.synonymPinyin = <<>> THEN 400
                     ELSE IF req.hanzi \notin DOMAIN words THEN 404 ELSE 200
       IN  /\ synonyms' = IF status = 200
                          THEN AddPinyinSynonym(synonyms, req.hanzi,
                                                ToNumberedPinyin(req.synonymPinyin))
                          ELSE synonyms
           /\ last' = [op |-> "synonym", hanzi |-> req.hanzi,
                       synonymPinyin |-> req.synonymPinyin, status |-> status]
    /\ steps' = steps + 1
    /\ UNCHANGED <<words, progress, now, session, pendingAdds, answered, seeded,
                   client>>
    /\ UNCHANGED <<examples, cache>>

\* The bodies of POST /complete a caller may send, whatever session preceded
CompleteRequests ==
    [mode : {"hanzi2pinyin", "bogus"},
     results : {<<[hanzi |-> h, correctFirstTry |-> TRUE]>> : h \in {Ni, Mao}},
     characterMode : {FALSE}]

\* POST /complete for any body: neither the mode nor the written forms are
\* looked up before updateProgress writes
Complete(req) ==
    /\ steps < MaxSteps
    /\ LET draws == [i \in 1 .. Len(req.results) |-> 0]
           done == CompleteLoop([progress |-> progress, upserts |-> <<>>],
                                req.results, draws, 1, req.mode,
                                req.characterMode, now)
       IN  /\ progress' = done.progress
           /\ answered' = answered \cup {<<req.results[i].hanzi, req.mode>> :
                                           i \in 1 .. Len(req.results)}
           /\ last' = [op |-> "completeRequest", mode |-> req.mode,
                       characterMode |-> req.characterMode,
                       results |-> req.results, status |-> 200,
                       wordsReviewed |-> Len(req.results),
                       upserts |-> done.upserts]
    /\ steps' = steps + 1
    /\ UNCHANGED <<words, now, session, pendingAdds, seeded, synonyms, client>>
    /\ UNCHANGED <<examples, cache>>

\* The start requests of this protocol: one with a mode, one with no valid mode
\* and one for as many new words of a category as a request may ask for
ProtocolStartRequests ==
    {r \in StartRequests :
        /\ ~r.characterMode /\ r.hanziList = <<>>
        /\ \/ /\ r.mode \in {"hanzi2pinyin", "bogus"}
              /\ r.count = 1 /\ r.wordSelection = "mixed" /\ r.categories = {}
           \/ /\ r.mode = "hanzi2english" /\ r.count = MaxCount
              /\ r.wordSelection = "new" /\ r.categories = {"greeting"}}

ProtocolInit ==
    /\ words = AnswerCatalog
    /\ progress = StoredProgress
    /\ now = InitialNow
    /\ session = NoSession
    /\ pendingAdds = [h \in ManualWords |-> 0]
    /\ last = [op |-> "init"]
    /\ answered = DOMAIN progress
    /\ seeded = {}
    /\ steps = 0
    /\ synonyms = {}
    /\ client = NoClient
    /\ examples = NoExamples
    /\ cache = NoCache

ProtocolNext ==
    \/ \E req \in AnswerRequests : SubmitAnswer(req)
    \/ \E req \in SynonymRequests : MarkSynonym(req)
    \/ \E req \in CompleteRequests : Complete(req)
    \/ \E req \in ProtocolStartRequests : StartSession(req)

ProtocolSpec == ProtocolInit /\ [][ProtocolNext]_vars

----------------------------------------------------------------------------
(* client/main.ts: one practice session as the page drives it *)

MaxClientSteps == 6

\* What the learner may choose on the start screen
ClientStartRequests ==
    [mode : {"hanzi2pinyin", "english2hanzi"}, count : {1, 2},
     wordSelection : {"review", "new"}, categories : {{}},
     characterMode : {FALSE}, hanziList : {<<>>}]

\* What the learner may type into the answer field
TypedAnswers ==
    {<<"n", "i3", Space, "h", "a3", "o">>, <<"n", "i", "3", "h", "a", "o">>,
     <<"n", "i", "2", "h", "a", "o", "3">>, <<"d", "e", Space>>,
     NiHao, Ni, Nin, <<"ni", Space>>, <<"n", "i3">>}

\* shuffle(array): every order of the array
ShuffleOutcomes(array) ==
    {[i \in 1 .. Len(array) |-> array[f[i]]] :
        f \in {g \in [1 .. Len(array) -> 1 .. Len(array)] :
                 \A i, j \in 1 .. Len(array) : g[i] = g[j] => i = j}}

CurrentQuestion(c) == c.questions[c.currentIndex + 1]

\* results.has(hanzi), results.set(hanzi, round), results.delete(hanzi) on a Map
\* kept as the sequence of its entries in insertion order
ResultsHas(results, hanzi) == \E i \in 1 .. Len(results) : results[i].hanzi = hanzi

ResultsSet(results, hanzi, round) ==
    IF ResultsHas(results, hanzi)
    THEN [i \in 1 .. Len(results) |->
             IF results[i].hanzi = hanzi THEN [hanzi |-> hanzi, round |-> round]
             ELSE results[i]]
    ELSE Append(results, [hanzi |-> hanzi, round |-> round])

ResultsDelete(results, hanzi) == SelectSeq(results, LAMBDA r : r.hanzi # hanzi)

\* ShowQuestion that reveals a new word without queueing it
ShowQuestionNeverQueued(c) ==
    LET question == CurrentQuestion(c)
    IN  IF question.bucket = NULL_BUCKET /\ question.hanzi \notin c.newWords
        THEN [c EXCEPT !.newWords = @ \cup {question.hanzi}, !.feedback = "reveal"]
        ELSE [c EXCEPT !.feedback = "none"]

\* showQuestion: a word with no bucket is revealed the first time it comes up
\* and queued for the next round, any other question waits for an answer
ShowQuestion(c) ==
    LET question == CurrentQuestion(c)
    IN  IF question.bucket = NULL_BUCKET /\ question.hanzi \notin c.newWords
        THEN [c EXCEPT !.newWords = @ \cup {question.hanzi},
                       !.incorrectThisRound = Append(@, question),
                       !.feedback = "reveal"]
        ELSE [c EXCEPT !.feedback = "none"]

\* handleStart
HandleStart(req) ==
    /\ steps < MaxClientSteps
    /\ client.screen # "practice"
    /\ \E resp \in StartResponses(words, progress, now, req) :
        /\ last' = [op |-> "start", req |-> req, status |-> resp.status,
                    error |-> resp.error, questions |-> resp.questions]
        /\ IF resp.status = 200
           THEN \E shuffled \in ShuffleOutcomes(resp.questions) :
                   client' = ShowQuestion(
                       [screen |-> "practice", mode |-> req.mode,
                        questions |-> shuffled, currentIndex |-> 0,
                        results |-> <<>>, incorrectThisRound |-> <<>>,
                        roundNumber |-> 1, newWords |-> {}, answer |-> <<>>,
                        feedback |-> "none"])
           ELSE client' = client
    /\ steps' = steps + 1
    /\ UNCHANGED <<words, progress, now, session, pendingAdds, answered, seeded,
                   synonyms>>
    /\ UNCHANGED <<examples, cache>>

\* AfterAnswer without the early return of a near-miss
AfterAnswerCountingNearMiss(c, answer, response) ==
    LET question == CurrentQuestion(c)
    IN  [c EXCEPT
           !.answer = answer,
           !.results = IF response.correct /\ ~ResultsHas(@, question.hanzi)
                       THEN ResultsSet(@, question.hanzi, c.roundNumber) ELSE @,
           !.incorrectThisRound = IF ~response.correct THEN Append(@, question)
                                  ELSE @,
           !.feedback = IF response.correct THEN "correct" ELSE "incorrect"]

\* handleSubmit once the response has arrived
AfterAnswer(c, answer, response) ==
    LET question == CurrentQuestion(c)
    IN  IF response.synonym
        THEN [c EXCEPT !.answer = answer, !.feedback = "synonym"]
        ELSE [c EXCEPT
                !.answer = answer,
                !.results = IF response.correct /\ ~ResultsHas(@, question.hanzi)
                            THEN ResultsSet(@, question.hanzi, c.roundNumber)
                            ELSE @,
                !.incorrectThisRound = IF ~response.correct
                                       THEN Append(@, question) ELSE @,
                !.feedback = IF response.correct THEN "correct" ELSE "incorrect"]

\* handleSubmit: the field is enabled before an answer and after a near-miss
HandleSubmit(typed) ==
    /\ steps < MaxClientSteps
    /\ client.screen = "practice"
    /\ client.feedback \in {"none", "synonym"}
    /\ Trim(typed) # <<>>
    /\ LET answer == Trim(typed)
           req == [mode |-> client.mode, hanzi |-> CurrentQuestion(client).hanzi,
                   answer |-> answer]
           response == AnswerResponse(words, synonyms, req)
       IN  /\ client' = AfterAnswer(client, answer, response)
           /\ last' = [op |-> "submit", mode |-> req.mode, hanzi |-> req.hanzi,
                       answer |-> answer, response |-> response]
    /\ steps' = steps + 1
    /\ UNCHANGED <<words, progress, now, session, pendingAdds, answered, seeded,
                   synonyms>>
    /\ UNCHANGED <<examples, cache>>

\* The Synonym button shown with the feedback of a wrong answer in a pinyin mode
HandleSynonym ==
    /\ steps < MaxClientSteps
    /\ client.screen = "practice"
    /\ client.feedback = "incorrect"
    /\ client.mode \in {"english2pinyin", "hanzi2pinyin"}
    /\ LET question == CurrentQuestion(client)
       IN  /\ synonyms' = AddPinyinSynonym(synonyms, question.hanzi,
                                           ToNumberedPinyin(client.answer))
           /\ client' = [client EXCEPT
                           !.incorrectThisRound =
                               SelectSeq(@, LAMBDA q : q # question),
                           !.results = ResultsDelete(@, question.hanzi),
                           !.feedback = "synonym"]
           /\ last' = [op |-> "synonym", hanzi |-> question.hanzi,
                       synonymPinyin |-> client.answer, status |-> 200]
    /\ steps' = steps + 1
    /\ UNCHANGED <<words, progress, now, session, pendingAdds, answered, seeded>>
    /\ UNCHANGED <<examples, cache>>

\* handleSkip
HandleSkip ==
    /\ steps < MaxClientSteps
    /\ client.screen = "practice"
    /\ client.feedback \in {"none", "synonym"}
    /\ client' = [client EXCEPT
                    !.incorrectThisRound = Append(@, CurrentQuestion(client)),
                    !.feedback = "skipped"]
    /\ last' = [op |-> "skip", hanzi |-> CurrentQuestion(client).hanzi]
    /\ steps' = steps + 1
    /\ UNCHANGED <<words, progress, now, session, pendingAdds, answered, seeded,
                   synonyms>>
    /\ UNCHANGED <<examples, cache>>

\* ResultArray that takes round 1 as the first attempt of every word
ResultArrayFirstRoundOnly(c) ==
    [i \in 1 .. Len(c.results) |->
        [hanzi |-> c.results[i].hanzi, correctFirstTry |-> c.results[i].round = 1]]

\* finishPractice: the request body built from results and newWords
ResultArray(c) ==
    [i \in 1 .. Len(c.results) |->
        [hanzi |-> c.results[i].hanzi,
         correctFirstTry |-> IF c.results[i].hanzi \in c.newWords
                             THEN c.results[i].round = 2
                             ELSE c.results[i].round = 1]]

\* handleNext: the next question, the next round, or the end of the session
HandleNext ==
    /\ steps < MaxClientSteps
    /\ client.screen = "practice"
    /\ client.feedback \in {"correct", "incorrect", "reveal", "skipped"}
    /\ LET currentIndex == client.currentIndex + 1
       IN  IF currentIndex < Len(client.questions)
           THEN /\ client' = ShowQuestion([client EXCEPT !.currentIndex = currentIndex])
                /\ last' = [op |-> "next"]
                /\ UNCHANGED <<progress, answered>>
           ELSE IF Len(client.incorrectThisRound) > 0
           THEN /\ \E shuffled \in ShuffleOutcomes(client.incorrectThisRound) :
                     client' = ShowQuestion(
                         [client EXCEPT !.questions = shuffled,
                                        !.incorrectThisRound = <<>>,
                                        !.roundNumber = @ + 1,
                                        !.currentIndex = 0])
                /\ last' = [op |-> "next"]
                /\ UNCHANGED <<progress, answered>>
           ELSE LET results == ResultArray(client)
                    draws == [i \in 1 .. Len(results) |-> 0]
                    done == CompleteLoop([progress |-> progress, upserts |-> <<>>],
                                         results, draws, 1, client.mode, FALSE, now)
                IN  /\ progress' = done.progress
                    /\ answered' = answered \cup {<<results[i].hanzi, client.mode>> :
                                                    i \in 1 .. Len(results)}
                    /\ client' = [client EXCEPT !.screen = "result"]
                    /\ last' = [op |-> "finish", mode |-> client.mode,
                                results |-> results, status |-> 200,
                                upserts |-> done.upserts]
    /\ steps' = steps + 1
    /\ UNCHANGED <<words, now, session, pendingAdds, seeded, synonyms>>
    /\ UNCHANGED <<examples, cache>>

ClientNext ==
    \/ \E req \in ClientStartRequests : HandleStart(req)
    \/ \E typed \in TypedAnswers : HandleSubmit(typed)
    \/ HandleSynonym
    \/ HandleSkip
    \/ HandleNext

ClientSpec == ProtocolInit /\ [][ClientNext]_vars

----------------------------------------------------------------------------
(* server/services/cedict.ts: numbered pinyin to tone marks *)

AsciiLetters ==
    {"a", "b", "c", "d", "e", "f", "g", "h", "i", "j", "k", "l", "m", "n", "o",
     "p", "q", "r", "s", "t", "u", "v", "w", "x", "y", "z", "N", "H"}

\* TONE_MARKS[vowel][tone - 1] for a tone from 1 to 4
ToneMarks(vowel, tone) ==
    CHOOSE c \in DOMAIN TONE_TO_NUMBER : TONE_TO_NUMBER[c] = <<vowel, tone>>

\* letters.replace(/u:/g, 'v')
RECURSIVE ReplaceUColon(_)
ReplaceUColon(letters) ==
    IF Len(letters) < 2 THEN letters
    ELSE IF letters[1] = "u" /\ letters[2] = ":"
    THEN <<"v">> \o ReplaceUColon(SubSeq(letters, 3, Len(letters)))
    ELSE <<Head(letters)>> \o ReplaceUColon(Tail(letters))

\* replace(/v/g, the u with two dots)
ReplaceV(letters) ==
    [i \in 1 .. Len(letters) |-> IF letters[i] = "v" THEN "uu" ELSE letters[i]]

\* The index the tone mark goes to, 0 where the code has -1: the first a, else
\* the first e, else the first o when the letters hold "ou", else the last
\* of the vowels a, e, i, o, u, v
ToneIndex(lowerLetters) ==
    LET First(c) == CHOOSE i \in 1 .. Len(lowerLetters) :
                        /\ lowerLetters[i] = c
                        /\ \A j \in 1 .. (i - 1) : lowerLetters[j] # c
        Has(c) == \E i \in 1 .. Len(lowerLetters) : lowerLetters[i] = c
        HasOu == \E i \in 1 .. (Len(lowerLetters) - 1) :
                     lowerLetters[i] = "o" /\ lowerLetters[i + 1] = "u"
        vowels == {i \in 1 .. Len(lowerLetters) :
                      lowerLetters[i] \in {"a", "e", "i", "o", "u", "v"}}
    IN  IF Has("a") THEN First("a")
        ELSE IF Has("e") THEN First("e")
        ELSE IF HasOu THEN First("o")
        ELSE IF vowels # {} THEN CHOOSE i \in vowels : \A j \in vowels : j <= i
        ELSE 0

\* syllableToToneMarked: a syllable that is not letters with one optional tone
\* digit at its end is returned as it is. No vowel of the model is upper-case
SyllableToToneMarked(syllable) ==
    LET n == Len(syllable)
        hasTone == n > 0 /\ syllable[n] \in {"1", "2", "3", "4", "5"}
        raw == IF hasTone THEN SubSeq(syllable, 1, n - 1) ELSE syllable
        tone == IF hasTone THEN syllable[n] ELSE "5"
        letters == ReplaceUColon(raw)
        toneIndex == ToneIndex(ToLowerCase(letters))
    IN  IF raw = <<>> \/ \E i \in 1 .. Len(raw) : raw[i] \notin AsciiLetters \cup {":"}
        THEN syllable
        ELSE IF tone = "5" \/ toneIndex = 0 THEN ReplaceV(letters)
        ELSE ReplaceV([letters EXCEPT
                         ![toneIndex] =
                             ToneMarks(ToLowerCase(letters)[toneIndex], tone)])

\* pinyin.split(' '): the pieces between the spaces, empty ones too
RECURSIVE SplitOnSpace(_)
SplitOnSpace(str) ==
    IF \A i \in 1 .. Len(str) : str[i] # Space THEN <<str>>
    ELSE LET k == CHOOSE i \in 1 .. Len(str) :
                      str[i] = Space /\ \A j \in 1 .. (i - 1) : str[j] # Space
         IN  <<SubSeq(str, 1, k - 1)>> \o SplitOnSpace(SubSeq(str, k + 1, Len(str)))

\* numberedToToneMarked
NumberedToToneMarked(pinyin) ==
    LET pieces == SplitOnSpace(pinyin)
    IN  JoinSyllables([i \in 1 .. Len(pieces) |-> SyllableToToneMarked(pieces[i])])

----------------------------------------------------------------------------
(* The pinyin functions applied to inputs drawn in the initial state *)

MaxLen == 3

\* The characters the strings of every length up to MaxLen are made of
PinyinAlphabet == {"n", "g", "r", "e", "e2", "a4", "uu3", "N", Apostrophe, Space}

RECURSIVE StringsOfLength(_)
StringsOfLength(n) ==
    IF n = 0 THEN {<<>>}
    ELSE {Append(str, c) : str \in StringsOfLength(n - 1), c \in PinyinAlphabet}

\* Longer strings: the words of services/pinyin.test.ts
PinyinExamples ==
    {<<"g", "e4", "r", "e2", "n">>, <<"e2", "r", "t", "o2", "n", "g">>,
     <<"e2", "r">>, <<"n", "uu3", "e2", "r">>, <<"n", "i3", "h", "a3", "o">>,
     <<"z", "h", "i1", "d", "a4", "o">>, <<"r", "e4", "n", "s", "h", "i">>,
     <<"g", "e4", Space, "r", "e2", "n">>, <<"N", "i3", Space, "H", "a3", "o">>,
     <<"l", "uu4">>, <<"d", "e">>, <<"x", "i1", Apostrophe, "a1", "n">>}

PinyinStrings ==
    UNION {StringsOfLength(n) : n \in 0 .. MaxLen} \cup PinyinExamples

\* Readings: syllables in order, each its letters and its tone
Syl(letters, tone) == [letters |-> letters, tone |-> tone]

Readings ==
    {<<Syl(<<"n", "i">>, "3"), Syl(<<"h", "a", "o">>, "3")>>,
     <<Syl(<<"g", "e">>, "4"), Syl(<<"r", "e", "n">>, "2")>>,
     <<Syl(<<"g", "e">>, "4"), Syl(<<"r", "e", "n">>, "3")>>,
     <<Syl(<<"m", "a">>, "1"), Syl(<<"m", "a">>, "5")>>,
     <<Syl(<<"n", "i">>, "3")>>}

Forms == {"marks spaced", "marks", "digits spaced", "digits", "capital marks spaced"}

\* A reading written in a form: tones as marks or as digits, syllables with or
\* without a space between them, the first letter a capital or not
Render(reading, form) ==
    LET digits == [i \in 1 .. Len(reading) |->
                      reading[i].letters
                          \o (IF reading[i].tone = "5" THEN <<>>
                              ELSE <<reading[i].tone>>)]
        marked == NumberedToToneMarked(
                      JoinSyllables([i \in 1 .. Len(reading) |->
                          Append(reading[i].letters, reading[i].tone)]))
        Unspaced(str) == SelectSeq(str, LAMBDA c : c # Space)
    IN  CASE form = "marks spaced" -> marked
          [] form = "marks" -> Unspaced(marked)
          [] form = "digits spaced" -> JoinSyllables(digits)
          [] form = "digits" -> Unspaced(JoinSyllables(digits))
          [] OTHER ->
               LET str == marked
               IN  [i \in 1 .. Len(str) |->
                       IF i = 1 /\ \E u \in DOMAIN UpperCase : UpperCase[u] = str[1]
                       THEN CHOOSE u \in DOMAIN UpperCase : UpperCase[u] = str[1]
                       ELSE str[i]]

\* The finals of the grammar in letters (v for the u with two dots)
FinalLetters ==
    {<<"i", "a", "n", "g">>, <<"i", "a", "o">>, <<"i", "a", "n">>, <<"i",
     "o", "n", "g">>, <<"u", "a", "n", "g">>, <<"u", "a", "i">>, <<"u", "a",
     "n">>, <<"i", "a">>, <<"i", "e">>, <<"i", "u">>, <<"i", "n", "g">>,
     <<"i", "n">>, <<"u", "a">>, <<"u", "o">>, <<"u", "e">>, <<"u", "i">>,
     <<"u", "n">>, <<"u", "n", "g">>, <<"v", "e">>, <<"v", "a", "n">>, <<"v",
     "n">>, <<"a", "n", "g">>, <<"a", "i">>, <<"a", "o">>, <<"a", "n">>,
     <<"e", "n", "g">>, <<"e", "i">>, <<"e", "n">>, <<"e", "r">>, <<"o", "n",
     "g">>, <<"o", "u">>, <<"a">>, <<"e">>, <<"i">>, <<"o">>, <<"u">>,
     <<"v">>}

\* The inputs: a string, two written readings, or a syllable with its tone
PinyinInputs ==
    {[op |-> "input", kind |-> "string", input |-> str] : str \in PinyinStrings}
    \cup {[op |-> "input", kind |-> "readings", a |-> r1, formA |-> f1,
           b |-> r2, formB |-> f2] :
             r1 \in Readings, f1 \in Forms, r2 \in Readings, f2 \in Forms}
    \cup {[op |-> "input", kind |-> "syllable", letters |-> i \o f, tone |-> t] :
             i \in {<<>>, <<"l">>, <<"n">>, <<"j">>, <<"z", "h">>},
             f \in FinalLetters,
             t \in {"1", "2", "3", "4", "5"}}

PinyinInit ==
    /\ words = ImportedWords
    /\ progress = StoredProgress
    /\ now = InitialNow
    /\ session = NoSession
    /\ pendingAdds = [h \in ManualWords |-> 0]
    /\ last \in PinyinInputs
    /\ answered = DOMAIN progress
    /\ seeded = {}
    /\ steps = 0
    /\ synonyms = {}
    /\ client = NoClient
    /\ examples = NoExamples
    /\ cache = NoCache

CallSplitPinyin ==
    /\ last.op = "input" /\ last.kind = "string"
    /\ last' = [op |-> "splitPinyin", input |-> last.input,
                result |-> SplitPinyin(last.input)]
    /\ UNCHANGED <<words, progress, now, session, pendingAdds, answered, seeded,
                   steps, synonyms, client>>
    /\ UNCHANGED <<examples, cache>>

CallToNumberedPinyin ==
    /\ last.op = "input" /\ last.kind = "string"
    /\ last' = [op |-> "toNumberedPinyin", input |-> last.input,
                result |-> ToNumberedPinyin(last.input)]
    /\ UNCHANGED <<words, progress, now, session, pendingAdds, answered, seeded,
                   steps, synonyms, client>>
    /\ UNCHANGED <<examples, cache>>

CallPinyinMatches ==
    /\ last.op = "input" /\ last.kind = "readings"
    /\ last' = [op |-> "pinyinMatches", a |-> last.a, formA |-> last.formA,
                b |-> last.b, formB |-> last.formB,
                input |-> Render(last.a, last.formA),
                expected |-> Render(last.b, last.formB),
                result |-> PinyinMatches(Render(last.a, last.formA),
                                         Render(last.b, last.formB))]
    /\ UNCHANGED <<words, progress, now, session, pendingAdds, answered, seeded,
                   steps, synonyms, client>>
    /\ UNCHANGED <<examples, cache>>

\* A syllable with its tone digit turned into tone marks, then into numbered
\* pinyin, then into tone marks again
CallRoundTrip ==
    /\ last.op = "input" /\ last.kind = "syllable"
    /\ LET display == SyllableToToneMarked(Append(last.letters, last.tone))
           machine == ToNumberedPinyin(display)
       IN  last' = [op |-> "roundTrip", letters |-> last.letters,
                    tone |-> last.tone, display |-> display, machine |-> machine,
                    back |-> SyllableToToneMarked(machine)]
    /\ UNCHANGED <<words, progress, now, session, pendingAdds, answered, seeded,
                   steps, synonyms, client>>
    /\ UNCHANGED <<examples, cache>>

PinyinNext ==
    \/ CallSplitPinyin
    \/ CallToNumberedPinyin
    \/ CallPinyinMatches
    \/ CallRoundTrip

PinyinSpec == PinyinInit /\ [][PinyinNext]_vars

----------------------------------------------------------------------------
(* Answer verification (C12 to C17), checked under ProtocolSpec *)

\* C12 as the spec states it: in english2hanzi an answer is correct if and only
\* if it equals the written form of the target, and an answer that is not equal
\* is a near-miss if and only if another word of the catalog has the same set of
\* translations as the target.
C12_Original ==
    (last.op = "answer" /\ last.mode = "english2hanzi"
        /\ last.response.status = 200) =>
        LET english == words[last.hanzi].english
            Set(list) == {list[i] : i \in 1 .. Len(list)}
            shared == \E h2 \in DOMAIN words \ {last.hanzi} :
                          Set(words[h2].english) = Set(english)
        IN  /\ last.response.correct <=> (last.answer = last.hanzi)
            /\ (last.answer # last.hanzi) => (last.response.synonym <=> shared)

\* C12, amended: the answer and the written form are compared with the white
\* space at their ends removed, and an answer that does not match is a near-miss
\* if and only if another word of the catalog has the same list of translations,
\* in the same order, letter case apart. Submitting the written form of such
\* another word is answered with correct false and near-miss true.
C12_WrittenFormNearMissOnSharedTranslationList ==
    (last.op = "answer" /\ last.mode = "english2hanzi"
        /\ last.response.status = 200) =>
        LET english == words[last.hanzi].english
            shared == \E h2 \in DOMAIN words \ {last.hanzi} :
                          NormalizedTranslations(words[h2].english)
                              = NormalizedTranslations(english)
            other == /\ last.answer \in DOMAIN words \ {last.hanzi}
                     /\ NormalizedTranslations(words[last.answer].english)
                            = NormalizedTranslations(english)
        IN  /\ last.response.correct <=> (Trim(last.answer) = Trim(last.hanzi))
            /\ ~last.response.correct => (last.response.synonym <=> shared)
            /\ last.response.correct => ~last.response.synonym
            /\ other => (~last.response.correct /\ last.response.synonym)

\* C12, its case reached: the written form of another word with the translation
\* of the target, in other letter case, answered as a near-miss.
C12_Witness ==
    /\ last.op = "answer" /\ last.mode = "english2hanzi"
    /\ last.hanzi = Ni /\ last.answer = Nin
    /\ words[Ni].english # words[Nin].english
    /\ last.response.synonym /\ ~last.response.correct

C16_Original ==
    [][(/\ last'.op \in {"start", "answer", "completeRequest"}
        /\ steps' = steps + 1
        /\ (IF last'.op = "start" THEN last'.req.mode ELSE last'.mode) \notin Modes)
       => (/\ progress' = progress
           /\ (IF last'.op = "answer" THEN last'.response.status ELSE last'.status)
                 >= 400)]_vars

\* C17 as the spec states it: an answer for a written form that is not in the
\* catalog is answered not-found, and a complete request creates no progress
\* record for a written form that is not in the catalog.
C17_Original ==
    /\ (last.op = "answer" /\ last.hanzi \notin DOMAIN words)
          => last.response.status = 404
    /\ \A key \in DOMAIN progress : key[1] \in DOMAIN words

----------------------------------------------------------------------------
(* The near-miss in the session (C11), checked under ClientSpec *)

\* C11: every response of POST /answer that flags a near-miss has correct
\* false. When the page receives a near-miss it records no result for the word,
\* does not queue it as incorrect and stays on the same question with the answer
\* field open, and no progress record changes; a result is recorded only on a
\* response that is correct and not a near-miss.
C11_NearMissNeitherScoresNorAdvances ==
    [][/\ \A req \in AnswerRequests :
            LET response == AnswerResponse(words, synonyms, req)
            IN  response.synonym => ~response.correct
       /\ (last'.op = "submit" /\ steps' = steps + 1) =>
            /\ last'.response.synonym => ~last'.response.correct
            /\ last'.response.synonym =>
                 /\ client'.results = client.results
                 /\ client'.incorrectThisRound = client.incorrectThisRound
                 /\ client'.questions = client.questions
                 /\ client'.currentIndex = client.currentIndex
                 /\ client'.roundNumber = client.roundNumber
                 /\ client'.feedback = "synonym"
                 /\ progress' = progress
            /\ (client'.results # client.results) =>
                 (last'.response.correct /\ ~last'.response.synonym)]_vars

\* C11, its case reached: the page has received a near-miss for the question it
\* shows: no result, nothing queued, the same question, the answer field open.
C11_Witness ==
    /\ last.op = "submit" /\ last.response.synonym /\ ~last.response.correct
    /\ client.screen = "practice" /\ client.feedback = "synonym"
    /\ CurrentQuestion(client).hanzi = last.hanzi
    /\ client.results = <<>> /\ client.incorrectThisRound = <<>>
    /\ progress = StoredProgress

----------------------------------------------------------------------------
(* Selection errors and filters (C18 to C20), checked under Spec *)

\* C18: a start request with a valid mode and a count whose selection is empty
\* is answered with status 400 and the error "No words available for practice",
\* carries no questions, starts no session and changes no progress record.
C18_EmptySelectionFails ==
    [][(/\ last'.op = "start" /\ steps' = steps + 1
        /\ last'.req.mode \in Modes
        /\ (Len(last'.req.hanziList) > 0 \/ last'.req.count > 0)
        /\ SelectedWords(words, progress, now, last'.req) = {<<>>})
       => (/\ last'.status = 400
           /\ last'.error = "No words available for practice"
           /\ last'.questions = <<>>
           /\ session' = NoSession
           /\ progress' = progress)]_vars

\* C18, its case reached: a review selection in a mode where no word matching
\* the category filter has a record, answered with the error.
C18_Witness ==
    /\ last.op = "start" /\ last.req.mode \in Modes
    /\ last.req.count > 0 /\ last.req.hanziList = <<>>
    /\ last.req.wordSelection = "review"
    /\ SelectedWords(words, progress, now, last.req) = {<<>>}
    /\ last.status = 400 /\ last.questions = <<>>
    /\ progress = StoredProgress

\* C19: whichever of the four selections a start request asks for, no word
\* returned in hanzi2english, english2hanzi or english2pinyin is flagged
\* non-translatable; in hanzi2pinyin the flag excludes nothing: a review selection
\* in word mode with no category filter and room for every recorded word returns
\* the non-translatable words that have a record too.
C19_TranslatableFilter ==
    (last.op = "start" /\ last.req.mode \in Modes /\ last.req.hanziList = <<>>
        /\ last.req.count > 0) =>
        LET req == last.req
            sel == [i \in 1 .. Len(last.questions) |-> last.questions[i].hanzi]
            asked == {sel[i] : i \in 1 .. Len(sel)}
            recorded == {h \in DOMAIN words :
                           /\ <<h, req.mode>> \in DOMAIN progress
                           /\ progress[<<h, req.mode>>].characterModeOnly = 0
                           /\ words[h].rank # NULL_RANK}
        IN  /\ req.mode \in {"hanzi2english", "english2hanzi", "english2pinyin"}
                => \A h \in asked : words[h].translatable
            /\ (/\ req.mode = "hanzi2pinyin" /\ req.wordSelection = "review"
                /\ ~req.characterMode /\ req.categories = {}
                /\ req.count >= Cardinality(recorded))
                => \A h \in recorded : ~words[h].translatable => h \in asked

\* C19, its case reached: a non-translatable word returned in hanzi2pinyin, and
\* the same kind of selection in hanzi2english returning words without it.
C19_Witness ==
    /\ last.op = "start" /\ last.status = 200 /\ last.req.hanziList = <<>>
    /\ last.req.mode = "hanzi2pinyin"
    /\ \E i \in 1 .. Len(last.questions) :
          ~words[last.questions[i].hanzi].translatable

\* C20: whichever of the four selections a start request asks for, with a
\* category filter that is not empty every returned word has a category of the
\* filter; with an empty filter the categories play no part: the words returned
\* are words the same selection may return from the catalog with every category
\* list emptied.
C20_CategoryFilter ==
    (last.op = "start" /\ last.req.mode \in Modes /\ last.req.hanziList = <<>>
        /\ last.req.count > 0) =>
        LET req == last.req
            sel == [i \in 1 .. Len(last.questions) |-> last.questions[i].hanzi]
            untagged == [h \in DOMAIN words |-> [words[h] EXCEPT !.categories = {}]]
        IN  /\ req.categories # {} =>
                \A i \in 1 .. Len(sel) :
                    words[sel[i]].categories \cap req.categories # {}
            /\ req.categories = {} =>
                sel \in SelectedWords(untagged, progress, now, req)

\* C20, its case reached: a request filtered on "greeting" that is answered with
\* fewer words than it asks for, each a greeting, while the catalog holds words
\* of other categories and words of none.
C20_Witness ==
    /\ last.op = "start" /\ last.status = 200 /\ last.req.hanziList = <<>>
    /\ last.req.categories = {"greeting"}
    /\ Len(last.questions) < last.req.count
    /\ \A i \in 1 .. Len(last.questions) :
          "greeting" \in words[last.questions[i].hanzi].categories
    /\ \E h \in DOMAIN words : words[h].categories = {}
    /\ \E h \in DOMAIN words : words[h].categories = {"people"}

----------------------------------------------------------------------------
(* Grading, the clock and the due count: GET /due-count next to POST /complete *)

\* GET /due-count
DueCount(mode, categories, characterMode) ==
    /\ steps < MaxSteps
    /\ last' = IF mode \notin Modes
               THEN [op |-> "dueCount", mode |-> mode, status |-> 400]
               ELSE [op |-> "dueCount", mode |-> mode, status |-> 200,
                     categories |-> categories, characterMode |-> characterMode,
                     count |-> GetDueCount(words, progress, now, mode, categories,
                                           characterMode)]
    /\ steps' = steps + 1
    /\ UNCHANGED <<words, progress, now, session, pendingAdds, answered, seeded,
                   synonyms, client>>
    /\ UNCHANGED <<examples, cache>>

\* Bodies of POST /complete with one result, right or wrong, in or out of
\* character mode
GradeRequests ==
    [mode : {"hanzi2pinyin", "english2pinyin"},
     results : {<<[hanzi |-> h, correctFirstTry |-> c]>> :
                   h \in {NiHao, De, Hao}, c \in BOOLEAN},
     characterMode : BOOLEAN]

\* Requests for a mixed selection
MixedRequests ==
    {r \in StartRequests :
        /\ r.wordSelection = "mixed" /\ r.hanziList = <<>> /\ r.categories = {}
        /\ r.mode \in {"hanzi2pinyin", "english2pinyin"}
        /\ r.count \in {1, MaxCount}}

DueNext ==
    \/ \E req \in GradeRequests : Complete(req)
    \/ \E d \in Advances : Tick(d)
    \/ \E h \in {NiHao, Hao} : ResetProgress(h)
    \/ \E mode \in {"hanzi2pinyin", "english2pinyin", "bogus"} :
          \E categories \in CategoryFilters : \E characterMode \in BOOLEAN :
              DueCount(mode, categories, characterMode)
    \/ \E req \in MixedRequests : StartSession(req)

DueSpec == Init /\ [][DueNext]_vars

----------------------------------------------------------------------------
(* Words without a rank (C21), checked under ProtocolSpec *)

\* C21 as the spec states it: a word with no rank is not kept out of the New
\* selection for that: a request with room for every new word that passes the
\* other filters returns each of them, and no word without a rank comes before
\* a word with one.
C21_Original ==
    (last.op = "start" /\ last.req.mode \in Modes /\ last.req.hanziList = <<>>
        /\ last.req.count > 0 /\ last.req.wordSelection = "new") =>
        LET req == last.req
            sel == [i \in 1 .. Len(last.questions) |-> last.questions[i].hanzi]
            asked == {sel[i] : i \in 1 .. Len(sel)}
            rank(h) == RankColumn(words[h], req.characterMode)
            new == {h \in DOMAIN words :
                      /\ \/ <<h, req.mode>> \notin DOMAIN progress
                         \/ (/\ ~req.characterMode
                             /\ progress[<<h, req.mode>>].characterModeOnly = 1)
                      /\ req.mode # "hanzi2pinyin" => words[h].translatable
                      /\ req.categories # {} =>
                            words[h].categories \cap req.categories # {}
                      /\ req.characterMode =>
                            \E w2 \in DOMAIN words :
                                /\ \E m \in Modes : HasProgress(progress, w2, m)
                                /\ Instr(w2, h)}
        IN  /\ req.count >= Cardinality(new) => asked = new
            /\ \A i, j \in 1 .. Len(sel) :
                  (i < j /\ rank(sel[i]) = NULL_RANK) => rank(sel[j]) = NULL_RANK


----------------------------------------------------------------------------
(* Pinyin segmentation and normalisation (C22 to C27), checked under PinyinSpec *)

\* The syllables of a result in one string, the spaces between them removed
RECURSIVE Flatten(_)
Flatten(syllables) ==
    IF syllables = <<>> THEN <<>> ELSE Head(syllables) \o Flatten(Tail(syllables))

SegmentationIsTotal(input, result) ==
    LET syllables == SplitOnSpace(result)
    IN  /\ Len(syllables) >= 1
        /\ Len(syllables) <= Len(input)
        /\ \A i \in 1 .. Len(syllables) : syllables[i] # <<>>
        /\ Flatten(syllables) = input

\* C22 as stated: splitPinyin of any non-empty input without a space returns
\* a non-empty sequence of non-empty syllables whose concatenation is the input.
C22_Original ==
    (/\ last.op = "splitPinyin"
     /\ last.input # <<>>
     /\ \A i \in 1 .. Len(last.input) : last.input[i] # Space)
        => SegmentationIsTotal(last.input, last.result)

\* C22: splitPinyin of any non-empty input without a space and without an
\* apostrophe returns a non-empty sequence of non-empty syllables whose
\* concatenation is the input.
C22_SegmentationIsTotalWithoutSeparators ==
    (/\ last.op = "splitPinyin"
     /\ last.input # <<>>
     /\ \A i \in 1 .. Len(last.input) : last.input[i] \notin {Space, Apostrophe})
        => SegmentationIsTotal(last.input, last.result)

\* C22 witness: an input no syllable of the grammar begins, cut character by
\* character
C22_Witness ==
    /\ last.op = "splitPinyin"
    /\ last.input = <<"n", "g", "r">>
    /\ last.result = <<"n", Space, "g", Space, "r">>

\* C23 as stated: splitPinyin gives the n or r before a vowel to the next
\* syllable: "ge4ren2" in tone marks is cut into "ge4" and "re2n", "e2rto2ng"
\* into "e2r" and "to2ng".
C23_Original ==
    last.op = "splitPinyin"
        => /\ last.input = <<"g", "e4", "r", "e2", "n">>
               => last.result = <<"g", "e4", Space, "r", "e2", "n">>
           /\ last.input = <<"e2", "r", "t", "o2", "n", "g">>
               => last.result = <<"e2", "r", Space, "t", "o2", "n", "g">>

\* C24 as stated: splitPinyin shortens a match whose remainder begins no
\* syllable: "nu:3e2r" in tone marks is cut into "nu:3" and "e2r".
C24_Original ==
    (last.op = "splitPinyin" /\ last.input = <<"n", "uu3", "e2", "r">>)
        => last.result = <<"n", "uu3", Space, "e2", "r">>


\* Lower case, and v for the u with two dots
UmlautToV(str) ==
    LET lower == ToLowerCase(str)
    IN  [i \in 1 .. Len(lower) |-> IF lower[i] = "uu" THEN "v" ELSE lower[i]]

\* C25 as stated: for every syllable of the grammar and every tone from 1 to
\* 5, the display form turned into machine form and back is the same syllable,
\* up to letter case and the two spellings of the u with two dots.
C25_Original ==
    last.op = "roundTrip" => UmlautToV(last.back) = UmlautToV(last.display)

\* C26 as stated: pinyinMatches is true exactly when both strings write the
\* same syllables with the same tones, whether the tones are marks or digits,
\* the syllables spaced or not, the letters capital or not.
C26_Original ==
    last.op = "pinyinMatches" => (last.result <=> last.a = last.b)

\* The digit of the tone mark in a syllable with at most one marked vowel,
\* after its letters in lower case with the marked vowel unmarked
NumberedSyllable(syllable) ==
    LET lower == ToLowerCase(syllable)
        marked == {i \in 1 .. Len(lower) : lower[i] \in DOMAIN TONE_TO_NUMBER}
    IN  [i \in 1 .. Len(lower) |->
            IF i \in marked THEN TONE_TO_NUMBER[lower[i]][1] ELSE lower[i]]
        \o (IF marked = {} THEN <<>>
            ELSE <<TONE_TO_NUMBER[lower[CHOOSE i \in marked : TRUE]][2]>>)

\* C27: toNumberedPinyin of syllables separated by spaces, each with at most
\* one tone mark, is the syllables in order without spaces, each in lower case
\* with its marked vowel replaced by the base vowel (v for the u with two
\* dots) and followed by the tone digit, or by no digit when it has no mark.
C27_NumberedPinyinOfMarkedSyllables ==
    (/\ last.op = "toNumberedPinyin"
     /\ \A i \in 1 .. Len(last.input) : last.input[i] # Apostrophe)
        => LET syllables == SplitOnSpace(last.input)
           IN  (\A k \in 1 .. Len(syllables) :
                    Cardinality({i \in 1 .. Len(syllables[k]) :
                        syllables[k][i] \in DOMAIN TONE_TO_NUMBER}) <= 1)
                   => last.result =
                          Flatten([k \in 1 .. Len(syllables) |->
                                      NumberedSyllable(syllables[k])])

\* C27 witness: two capitalised syllables with a third tone each
C27_Witness ==
    /\ last.op = "toNumberedPinyin"
    /\ last.input = <<"N", "i3", Space, "H", "a3", "o">>
    /\ last.result = <<"n", "i", "3", "h", "a", "o", "3">>


----------------------------------------------------------------------------
(* Progress reset (C28) and wrong answers staying due (C29), checked under Spec *)

\* C28: a reset of a word of the catalog leaves no progress record of the word
\* in any mode, so that the word is new in every mode, in and out of character
\* mode; the catalog, and every progress record of every other word, is as
\* before.
C28_ResetMakesNewAndKeepsTheRest ==
    [][(last'.op = "reset" /\ last'.status = 200)
          => /\ words' = words
             /\ last'.hanzi \in DOMAIN words'
             /\ \A mode \in Modes :
                    /\ ~HasProgress(progress', last'.hanzi, mode)
                    /\ \A characterMode \in BOOLEAN :
                           NewWordCondition(progress', last'.hanzi, mode,
                                            characterMode)
             /\ \A key \in DOMAIN progress \cup DOMAIN progress' :
                    key[1] # last'.hanzi
                        => /\ key \in DOMAIN progress
                           /\ key \in DOMAIN progress'
                           /\ progress'[key] = progress[key]]_vars

\* C28 witness: the reset of a word that had records in all four modes, the
\* records of the other words still there
C28_Witness ==
    /\ last.op = "reset"
    /\ last.status = 200
    /\ last.hanzi = NiHao
    /\ \A mode \in Modes : HasProgress(StoredProgress, NiHao, mode)
    /\ \A mode \in Modes : ~HasProgress(progress, NiHao, mode)
    /\ HasProgress(progress, Ni, "hanzi2english")
    /\ NiHao \in DOMAIN words


\* The record of (hanzi, mode) is in bucket 0 and eligible at the current
\* instant, and every query whose filters the word passes takes it as due: the
\* due count counts it, a mixed selection with room for all due words holds it
CountsAsDue(hanzi, mode) ==
    /\ HasProgress(progress, hanzi, mode)
    /\ progress[<<hanzi, mode>>].bucket = 0
    /\ progress[<<hanzi, mode>>].nextEligible <= SqlNow(now)
    /\ \A categories \in CategoryFilters, characterMode \in BOOLEAN :
          (/\ hanzi \in DOMAIN words
           /\ WordFilter(words, progress, hanzi, mode, categories, characterMode)
           /\ ProgressFilter(progress[<<hanzi, mode>>], characterMode))
              => LET due == ReviewRows(words, progress, now, mode, categories,
                                       characterMode, TRUE)
                 IN  /\ hanzi \in due
                     /\ GetDueCount(words, progress, now, mode, categories,
                                    characterMode) >= 1
                     /\ (last.op = "dueCount" /\ last.status = 200
                         /\ last.mode = mode /\ last.categories = categories
                         /\ last.characterMode = characterMode)
                            => last.count = Cardinality(due)
                     /\ \A selected \in GetWordsForPractice(words, progress, now,
                                mode, MaxCount, categories, characterMode) :
                            Cardinality(due) <= MaxCount
                                => \E i \in 1 .. Len(selected) : selected[i] = hanzi

\* A step of POST /complete that grades (hanzi, mode) wrong
GradedIncorrect(hanzi, mode) ==
    /\ last'.op = "completeRequest" /\ steps' = steps + 1
    /\ last'.mode = mode
    /\ \E i \in 1 .. Len(last'.results) :
          last'.results[i] = [hanzi |-> hanzi, correctFirstTry |-> FALSE]

\* A step of POST /complete that grades (hanzi, mode)
Graded(hanzi, mode) ==
    /\ last'.op = "completeRequest" /\ steps' = steps + 1
    /\ last'.mode = mode
    /\ \E i \in 1 .. Len(last'.results) : last'.results[i].hanzi = hanzi

\* C29 as stated: after (hanzi, mode) is graded incorrect the record is in
\* bucket 0 with nextEligible not later than the grading instant, and the item
\* counts as due in the mode at every later instant until it is graded again.
C29_Original ==
    [][\A hanzi \in {NiHao, De, Hao}, mode \in {"hanzi2pinyin", "english2pinyin"} :
          /\ GradedIncorrect(hanzi, mode)
                 => /\ progress'[<<hanzi, mode>>].nextEligible <= SqlNow(now)
                    /\ CountsAsDue(hanzi, mode)'
          /\ (CountsAsDue(hanzi, mode) /\ ~Graded(hanzi, mode))
                 => CountsAsDue(hanzi, mode)']_vars

\* C29: after (hanzi, mode) is graded incorrect the record is in bucket 0 with
\* nextEligible not later than the grading instant, and the item counts as due
\* in the mode (it is in the due count and, when the selection has room for
\* all due words, in the mixed selection of every query whose filters it
\* passes) at every later instant until it is graded again or its progress is
\* reset.
C29_WrongStaysDueUntilGradedOrReset ==
    [][\A hanzi \in {NiHao, De, Hao}, mode \in {"hanzi2pinyin", "english2pinyin"} :
          /\ GradedIncorrect(hanzi, mode)
                 => /\ progress'[<<hanzi, mode>>].nextEligible <= SqlNow(now)
                    /\ CountsAsDue(hanzi, mode)'
          /\ (/\ CountsAsDue(hanzi, mode)
              /\ ~Graded(hanzi, mode)
              /\ ~(last'.op = "reset" /\ last'.hanzi = hanzi))
                 => CountsAsDue(hanzi, mode)']_vars

\* C29 witness: the word graded wrong out of bucket 8, still due, and counted,
\* fifty seconds later
C29_Witness ==
    /\ last.op = "tick"
    /\ now = InitialNow + 50 * TicksPerSecond
    /\ StoredProgress[<<NiHao, "hanzi2pinyin">>].bucket = 8
    /\ progress[<<NiHao, "hanzi2pinyin">>].bucket = 0
    /\ progress[<<NiHao, "hanzi2pinyin">>].nextEligible = SqlNow(InitialNow)
    /\ CountsAsDue(NiHao, "hanzi2pinyin")
    /\ NiHao \in ReviewRows(words, progress, now, "hanzi2pinyin", {}, FALSE, TRUE)


----------------------------------------------------------------------------
(* Rounds of the session on the page (C30), checked under ClientSpec *)

\* The words of the questions the page still holds, in the round or queued
\* for the next one, that have no result yet
Unanswered(c) ==
    ({c.questions[i].hanzi : i \in 1 .. Len(c.questions)}
        \cup {c.incorrectThisRound[i].hanzi : i \in 1 .. Len(c.incorrectThisRound)})
    \ {c.results[i].hanzi : i \in 1 .. Len(c.results)}

----------------------------------------------------------------------------
(* The first attempt reported at the end of the session (C31), checked under
   ClientSpec *)

\* Whether the first quiz attempt of the word in this session stands as failed:
\* the word was answered wrong (and the answer not recorded as a synonym) or
\* skipped in the round of its first quiz, which is round 2 for a word that was
\* new (revealed in round 1) and round 1 for any other
FirstAttemptFailed(c, hanzi) ==
    LET isNew == \/ hanzi \in c.newWords
                 \/ \E i \in 1 .. Len(c.questions) :
                       /\ c.questions[i].hanzi = hanzi
                       /\ c.questions[i].bucket = NULL_BUCKET
        first == IF isNew THEN 2 ELSE 1
        queued == \E i \in 1 .. Len(c.incorrectThisRound) :
                      c.incorrectThisRound[i].hanzi = hanzi
    IN  IF ResultsHas(c.results, hanzi)
        THEN \E i \in 1 .. Len(c.results) :
                c.results[i].hanzi = hanzi /\ c.results[i].round > first
        ELSE \/ c.roundNumber > first
             \/ c.roundNumber = first /\ queued

----------------------------------------------------------------------------
(* The bucket a question carries (C32), checked under Spec *)

\* C32 as stated: every item that New selection, or the new-item fill of mixed
\* selection, returns carries the sentinel of a new word, and every item
\* returned as due or for review carries its stored bucket.
C32_Original ==
    (last.op = "start" /\ last.status = 200 /\ Len(last.req.hanziList) = 0)
        => \A i \in 1 .. Len(last.questions) :
              LET question == last.questions[i]
                  key == <<question.hanzi, last.req.mode>>
                  due == question.hanzi \in
                             ReviewRows(words, progress, now, last.req.mode,
                                        last.req.categories,
                                        last.req.characterMode, TRUE)
              IN  IF \/ last.req.wordSelection = "new"
                     \/ last.req.wordSelection = "mixed" /\ ~due
                  THEN question.bucket = NULL_BUCKET
                  ELSE /\ key \in DOMAIN progress
                       /\ question.bucket = progress[key].bucket

\* C32: every question carries the stored bucket of its word in the mode when
\* a progress record exists and the sentinel of a new word when none does. An
\* item returned as due or for review has a record; an item that New selection
\* or the new-item fill of mixed selection returns has none, or, out of
\* character mode, has a record written in character mode only, and then its
\* question carries the bucket of that record.
C32_QuestionCarriesStoredBucket ==
    (last.op = "start" /\ last.status = 200 /\ Len(last.req.hanziList) = 0)
        => \A i \in 1 .. Len(last.questions) :
              LET question == last.questions[i]
                  key == <<question.hanzi, last.req.mode>>
                  due == question.hanzi \in
                             ReviewRows(words, progress, now, last.req.mode,
                                        last.req.categories,
                                        last.req.characterMode, TRUE)
              IN  /\ question.bucket = IF key \in DOMAIN progress
                                       THEN progress[key].bucket ELSE NULL_BUCKET
                  /\ IF \/ last.req.wordSelection = "new"
                        \/ last.req.wordSelection = "mixed" /\ ~due
                     THEN \/ key \notin DOMAIN progress
                          \/ /\ ~last.req.characterMode
                             /\ progress[key].characterModeOnly = 1
                     ELSE key \in DOMAIN progress

\* C32 witness: a New selection out of character mode whose questions are a
\* word without a record, with the sentinel, and a word with a record written
\* in character mode, with the bucket of the record
C32_Witness ==
    /\ last.op = "start" /\ last.status = 200
    /\ last.req.wordSelection = "new" /\ ~last.req.characterMode
    /\ \E i, j \in 1 .. Len(last.questions) :
          /\ last.questions[i].bucket = NULL_BUCKET
          /\ <<last.questions[i].hanzi, last.req.mode>> \notin DOMAIN progress
          /\ last.questions[j].bucket # NULL_BUCKET
          /\ progress[<<last.questions[j].hanzi, last.req.mode>>].characterModeOnly = 1
          /\ last.questions[j].bucket
                 = progress[<<last.questions[j].hanzi, last.req.mode>>].bucket


----------------------------------------------------------------------------
(* server/db.ts: the cached word map and the cached set of ambiguous
   translations, with the handlers of routes/words.ts that write words *)

\* What SELECT * FROM words gives getAllWords: each row with its examples
RowsWithExamples(ws, ex) ==
    [h \in DOMAIN ws |-> [word |-> ws[h], examples |-> ex[h]]]

\* getAllWords: loads the map when allWords is null
GetAllWords(c, ws, ex) ==
    IF c.allWords = {}
    THEN [c EXCEPT !.allWords = {RowsWithExamples(ws, ex)}] ELSE c

\* The map a caller of getAllWords receives
CachedWords(c) == CHOOSE m \in c.allWords : TRUE

\* isAmbiguousTranslation up to its answer: loads the set, from getAllWords, when
\* ambiguousTranslations is null
LoadedAmbiguousTranslations(c, ws, ex) ==
    IF c.ambiguousTranslations = {}
    THEN LET loaded == GetAllWords(c, ws, ex)
             m == CachedWords(loaded)
         IN  [loaded EXCEPT !.ambiguousTranslations =
                  {LoadAmbiguousTranslations([h \in DOMAIN m |-> m[h].word])}]
    ELSE c

\* Variant: invalidateWordCache forgets the word map only
InvalidateWordCacheKeepingSet(c) == [c EXCEPT !.allWords = {}]

\* invalidateWordCache
InvalidateWordCache(c) == NoCache

\* The bodies PUT /words/:hanzi is sent
UpdateEntries ==
    {[pinyin |-> <<"n", "i3">>, english |-> <<<<e>>>>, categories |-> {"people"}] :
        e \in {"good", "cat"}}

\* GET /words/lookup/:hanzi: getWordByHanzi
LookupWord(hanzi) ==
    /\ cache' = GetAllWords(cache, words, examples)
    /\ last' = [op |-> "lookup", hanzi |-> hanzi,
                existing |-> IF hanzi \in DOMAIN CachedWords(cache')
                             THEN {CachedWords(cache')[hanzi]} ELSE {}]
    /\ UNCHANGED <<words, progress, now, session, pendingAdds, answered, seeded,
                   steps, synonyms, client, examples>>

\* routes/practice.ts POST /answer, as far as it reads the caches:
\* getWordByHanzi, then isAmbiguousTranslation(word.english)
AskAmbiguous(hanzi) ==
    LET found == GetAllWords(cache, words, examples)
    IN  /\ IF hanzi \in DOMAIN CachedWords(found)
           THEN /\ cache' = LoadedAmbiguousTranslations(found, words, examples)
                /\ last' = [op |-> "ambiguous", hanzi |-> hanzi, status |-> 200,
                            answer |->
                                \E s \in cache'.ambiguousTranslations :
                                    NormalizedTranslations(
                                        CachedWords(found)[hanzi].word.english) \in s]
           ELSE /\ cache' = found
                /\ last' = [op |-> "ambiguous", hanzi |-> hanzi, status |-> 404,
                            answer |-> FALSE]
        /\ UNCHANGED <<words, progress, now, session, pendingAdds, answered,
                       seeded, steps, synonyms, client, examples>>

\* POST /words up to its await, with the duplicate check read through the cache
CachedAddWordBegin(hanzi) ==
    LET found == GetAllWords(cache, words, examples)
    IN  /\ hanzi \in ManualWords => pendingAdds[hanzi] < MaxSteps
        /\ cache' = found
        /\ IF hanzi \in DOMAIN CachedWords(found)
           THEN /\ last' = [op |-> "addWord", hanzi |-> hanzi, status |-> 409]
                /\ UNCHANGED pendingAdds
           ELSE /\ last' = [op |-> "addWordPending", hanzi |-> hanzi, status |-> 0]
                /\ pendingAdds' = [pendingAdds EXCEPT ![hanzi] = @ + 1]
        /\ UNCHANGED <<words, progress, now, session, answered, seeded, steps,
                       synonyms, client, examples>>

\* POST /words after generateExamples settles: insertWords, upsertProgress for
\* the four modes, invalidateWordCache, getWordByHanzi for the reply
CachedAddWordFinish(hanzi, generated) ==
    /\ pendingAdds[hanzi] > 0
    /\ LET rank == IF hanzi \in DOMAIN FrequencyData
                   THEN FrequencyData[hanzi] ELSE NULL_RANK
           row == [pinyin |-> ManualEntries[hanzi].pinyin,
                   english |-> ManualEntries[hanzi].english,
                   translatable |-> TRUE, rank |-> rank,
                   hanziRank |-> IF Len(hanzi) = 1 THEN rank ELSE NULL_RANK,
                   categories |-> {"greeting"}, manual |-> TRUE]
       IN  /\ words' = InsertWord(words, hanzi, row)
           /\ examples' = [examples EXCEPT ![hanzi] = generated]
           /\ progress' = InitializeProgress(progress, hanzi, 1, now)
    /\ pendingAdds' = [pendingAdds EXCEPT ![hanzi] = @ - 1]
    /\ seeded' = seeded \cup {<<hanzi, m>> : m \in Modes}
    /\ cache' = GetAllWords(InvalidateWordCache(cache), words', examples')
    /\ last' = [op |-> "addWord", hanzi |-> hanzi, status |-> 200,
                word |-> CachedWords(cache')[hanzi]]
    /\ UNCHANGED <<now, session, answered, steps, synonyms, client>>

\* PUT /words/:hanzi: getWordByHanzi, updateWord (which sets both caches to
\* null), getWordByHanzi for the reply
PutWord(hanzi, entry) ==
    LET found == GetAllWords(cache, words, examples)
    IN  /\ IF hanzi \notin DOMAIN CachedWords(found)
           THEN /\ cache' = found
                /\ last' = [op |-> "updateWord", hanzi |-> hanzi, status |-> 404]
                /\ UNCHANGED words
           ELSE /\ words' = [words EXCEPT
                                ![hanzi].pinyin = SplitPinyin(entry.pinyin),
                                ![hanzi].english = entry.english,
                                ![hanzi].categories = entry.categories]
                /\ cache' = GetAllWords(NoCache, words', examples)
                /\ last' = [op |-> "updateWord", hanzi |-> hanzi, status |-> 200,
                            word |-> CachedWords(cache')[hanzi]]
        /\ UNCHANGED <<progress, now, session, pendingAdds, answered, seeded,
                       steps, synonyms, client, examples>>

\* updateWordExamples: UPDATE words SET examples, then allWords = null
UpdateWordExamples(hanzi, texts) ==
    /\ examples' = IF hanzi \in DOMAIN words
                   THEN [examples EXCEPT ![hanzi] = texts] ELSE examples
    /\ cache' = [cache EXCEPT !.allWords = {}]
    /\ last' = [op |-> "updateExamples", hanzi |-> hanzi]
    /\ UNCHANGED <<words, progress, now, session, pendingAdds, answered, seeded,
                   steps, synonyms, client>>

CacheNext ==
    \/ \E h \in {Ni, Hao, Mao} : LookupWord(h)
    \/ \E h \in {Ni, Hao, Mao} : AskAmbiguous(h)
    \/ \E h \in {Ni, Mao} : CachedAddWordBegin(h)
    \/ \E texts \in {<<>>, <<"ex">>} : CachedAddWordFinish(Mao, texts)
    \/ \E h \in {Ni, Mao}, entry \in UpdateEntries : PutWord(h, entry)
    \/ \E h \in {Ni, Mao}, texts \in {<<>>, <<"ex">>} : UpdateWordExamples(h, texts)

CacheSpec == Init /\ [][CacheNext]_vars

----------------------------------------------------------------------------
(* The caches and the stored words (C33), checked under CacheSpec *)

----------------------------------------------------------------------------
(* The character-mode-only flag (C34), checked under DueSpec *)

\* C34: a grading outside character mode stores the flag 0; a grading in
\* character mode stores 1 on a record it creates and keeps the flag of a record
\* that exists, so a flag that was 0 is never set back to 1; and no other
\* operation creates a record or changes its flag. Hence the flag of a record
\* is 1 only if every grading since the record was created was in character mode.
C34_CharacterModeOnlyFlag ==
    [][\A h \in HanziUniverse, m \in Modes :
          LET key == <<h, m>>
              graded == /\ last'.op = "completeRequest" /\ last'.mode = m
                        /\ \E i \in 1 .. Len(last'.results) :
                               last'.results[i].hanzi = h
          IN  /\ graded /\ ~last'.characterMode =>
                     progress'[key].characterModeOnly = 0
              /\ graded /\ last'.characterMode /\ key \in DOMAIN progress =>
                     progress'[key].characterModeOnly
                         = progress[key].characterModeOnly
              /\ graded /\ last'.characterMode /\ key \notin DOMAIN progress =>
                     progress'[key].characterModeOnly = 1
              /\ ~graded /\ key \in DOMAIN progress' =>
                     /\ key \in DOMAIN progress
                     /\ progress'[key].characterModeOnly
                            = progress[key].characterModeOnly]_vars

\* A record that was learned in character mode only and was then graded outside
\* character mode has just been graded in character mode, and its flag is 0
C34_Witness ==
    /\ last.op = "completeRequest" /\ last.characterMode
    /\ last.mode = "hanzi2pinyin" /\ last.results[1].hanzi = Hao
    /\ StoredProgress[<<Hao, "hanzi2pinyin">>].characterModeOnly = 1
    /\ progress[<<Hao, "hanzi2pinyin">>].characterModeOnly = 0


----------------------------------------------------------------------------
(* A word added by hand is due at once (C35), checked under Spec *)

\* C35 as the spec states it: a successful add-word leaves a bucket-0 record in
\* each of the four modes, and from then on, until the word is graded or reset,
\* a mixed selection in any mode that the word's translatable flag and
\* categories admit, and that has room left, returns the word as a due item.
C35_Original ==
    /\ (last.op = "addWord" /\ last.status = 200) =>
           \A m \in Modes :
               /\ HasProgress(progress, last.hanzi, m)
               /\ progress[<<last.hanzi, m>>].bucket = 0
    /\ (last.op = "start" /\ last.req.mode \in Modes /\ last.req.hanziList = <<>>
           /\ last.req.count > 0 /\ last.req.wordSelection = "mixed"
           /\ ~last.req.characterMode) =>
           \A h \in ManualWords :
               (/\ <<h, last.req.mode>> \in seeded \ answered
                /\ last.req.mode # "hanzi2pinyin" => words[h].translatable
                /\ last.req.categories # {} =>
                       words[h].categories \cap last.req.categories # {}
                /\ Len(last.questions) < last.req.count)
               => \E i \in 1 .. Len(last.questions) :
                      last.questions[i] = [hanzi |-> h, bucket |-> 0]


----------------------------------------------------------------------------
(* Adding a written form that exists (C39), checked under Spec *)

\* C39 as the spec states it: whenever a well-formed add-word request for a
\* written form that is stored is answered, overlapping requests included, the
\* answer is the duplicate error and neither the words nor the progress records
\* change.
C39_Original ==
    [][\A h \in ManualWords :
          (/\ h \in DOMAIN words
           /\ last'.op = "addWord" /\ last'.hanzi = h /\ last'.status # 400)
          => /\ last'.status = 409
             /\ words' = words
             /\ progress' = progress]_vars


----------------------------------------------------------------------------
(* client/main.ts: the practice page with its requests in flight. Each handler
   runs up to its await; the rest of it runs when the response arrives, after
   whatever the learner has clicked or pressed in between. *)

\* The state of the page before a session: the fields of NoClient, the buttons
\* (Skip is shown and hidden with Submit, and the answer field is enabled exactly
\* while Submit is shown), the Synonym button of the feedback with what its
\* listener captured, the requests awaiting a response, all questions of the
\* session, and the number of completePractice calls made
NoPage ==
    [screen |-> "start", mode |-> "none", questions |-> <<>>, currentIndex |-> 0,
     results |-> <<>>, incorrectThisRound |-> <<>>, roundNumber |-> 1,
     newWords |-> {}, feedback |-> "none", allQuestions |-> <<>>,
     submitHidden |-> TRUE, nextHidden |-> TRUE, submitDisabled |-> FALSE,
     submitBlocked |-> FALSE, synonymBtn |-> <<>>, pending |-> <<>>,
     completes |-> 0]

PageInit ==
    /\ words = AnswerCatalog
    /\ progress = StoredProgress
    /\ now = InitialNow
    /\ session = NoSession
    /\ pendingAdds = [h \in ManualWords |-> 0]
    /\ last = [op |-> "init"]
    /\ answered = DOMAIN progress
    /\ seeded = {}
    /\ steps = 0
    /\ synonyms = {}
    /\ client = NoPage
    /\ examples = NoExamples
    /\ cache = NoCache

\* showQuestion with the buttons it shows and hides
PageShowQuestion(c) ==
    LET shown == ShowQuestion(c)
    IN  [shown EXCEPT !.submitHidden = (shown.feedback = "reveal"),
                      !.nextHidden = (shown.feedback # "reveal"),
                      !.synonymBtn = <<>>]

\* handleStart, taken with its response
PageStart(req) ==
    /\ steps < MaxClientSteps
    /\ client.screen = "start"
    /\ \E resp \in StartResponses(words, progress, now, req) :
        /\ resp.status = 200
        /\ \E shuffled \in ShuffleOutcomes(resp.questions) :
               client' = PageShowQuestion(
                   [NoPage EXCEPT !.screen = "practice", !.mode = req.mode,
                                  !.questions = shuffled,
                                  !.allQuestions = resp.questions])
    /\ last' = [op |-> "start"]
    /\ steps' = steps + 1
    /\ UNCHANGED <<words, progress, now, session, pendingAdds, answered, seeded,
                   synonyms, examples, cache>>

\* handleSubmit up to its await: the question is captured, Submit is disabled and
\* the request is sent
SubmitSent(c, typed) ==
    [c EXCEPT !.submitDisabled = TRUE,
              !.pending = Append(@, [kind |-> "answer",
                                     question |-> CurrentQuestion(c),
                                     answer |-> Trim(typed)])]

\* handleSkip
Skipped(c) ==
    [c EXCEPT !.incorrectThisRound = Append(@, CurrentQuestion(c)),
              !.feedback = "skipped", !.synonymBtn = <<>>,
              !.submitHidden = TRUE, !.nextHidden = FALSE]

\* A click on Submit: a disabled button receives none
ClickSubmit(typed) ==
    /\ steps < MaxClientSteps
    /\ client.screen = "practice"
    /\ ~client.submitHidden /\ ~client.submitDisabled
    /\ client.currentIndex < Len(client.questions)
    /\ Trim(typed) # <<>>
    /\ client' = SubmitSent(client, typed)
    /\ last' = [op |-> "page"]
    /\ steps' = steps + 1
    /\ UNCHANGED <<words, progress, now, session, pendingAdds, answered, seeded,
                   synonyms, examples, cache>>

\* Enter in the answer field: the listener looks at the hidden class of Submit
\* and at submitBlocked, not at its disabled attribute
EnterInAnswerInput(typed) ==
    /\ steps < MaxClientSteps
    /\ client.screen = "practice"
    /\ ~client.submitHidden /\ ~client.submitBlocked
    /\ client.currentIndex < Len(client.questions)
    /\ client' = IF Trim(typed) = <<>> THEN Skipped(client)
                 ELSE SubmitSent(client, typed)
    /\ last' = [op |-> "page"]
    /\ steps' = steps + 1
    /\ UNCHANGED <<words, progress, now, session, pendingAdds, answered, seeded,
                   synonyms, examples, cache>>

\* A click on "I don't know"
ClickSkip ==
    /\ steps < MaxClientSteps
    /\ client.screen = "practice"
    /\ ~client.submitHidden
    /\ client.currentIndex < Len(client.questions)
    /\ client' = Skipped(client)
    /\ last' = [op |-> "page"]
    /\ steps' = steps + 1
    /\ UNCHANGED <<words, progress, now, session, pendingAdds, answered, seeded,
                   synonyms, examples, cache>>

\* A click on the Synonym button of the feedback: the listener sends
\* markPinyinSynonym for the question and the answer it captured
ClickSynonym ==
    /\ steps < MaxClientSteps
    /\ client.screen = "practice"
    /\ client.synonymBtn # <<>>
    /\ client' = [client EXCEPT
                    !.pending = Append(@, [kind |-> "synonym",
                                           question |-> client.synonymBtn[1].question,
                                           answer |-> client.synonymBtn[1].answer])]
    /\ last' = [op |-> "page"]
    /\ steps' = steps + 1
    /\ UNCHANGED <<words, progress, now, session, pendingAdds, answered, seeded,
                   synonyms, examples, cache>>

\* A click on Next, or Enter outside the answer field while Next is shown:
\* handleNext, and finishPractice up to its await
ClickNext ==
    /\ steps < MaxClientSteps
    /\ client.screen = "practice"
    /\ ~client.nextHidden
    /\ LET currentIndex == client.currentIndex + 1
       IN  IF currentIndex < Len(client.questions)
           THEN client' = PageShowQuestion([client EXCEPT !.currentIndex = currentIndex])
           ELSE IF Len(client.incorrectThisRound) > 0
           THEN \E shuffled \in ShuffleOutcomes(client.incorrectThisRound) :
                    client' = PageShowQuestion(
                        [client EXCEPT !.questions = shuffled,
                                       !.incorrectThisRound = <<>>,
                                       !.roundNumber = @ + 1,
                                       !.currentIndex = 0])
           ELSE client' = [client EXCEPT
                              !.currentIndex = currentIndex,
                              !.completes = @ + 1,
                              !.pending = Append(@, [kind |-> "complete",
                                                     results |-> ResultArray(client)])]
    /\ last' = [op |-> "page"]
    /\ steps' = steps + 1
    /\ UNCHANGED <<words, progress, now, session, pendingAdds, answered, seeded,
                   synonyms, examples, cache>>

\* The 'input' event or the timer that ends the block set after a near-miss
Unblock ==
    /\ client.submitBlocked
    /\ client' = [client EXCEPT !.submitBlocked = FALSE]
    /\ last' = [op |-> "page"]
    /\ UNCHANGED <<words, progress, now, session, pendingAdds, answered, seeded,
                   steps, synonyms, examples, cache>>

\* The rest of handleSubmit, run with the response of submitAnswer
AnswerArrives(c, request, response) ==
    LET question == request.question
    IN  IF response.synonym
        THEN [c EXCEPT !.feedback = "synonym", !.synonymBtn = <<>>,
                       !.submitDisabled = FALSE, !.submitBlocked = TRUE]
        ELSE [c EXCEPT
                !.results = IF response.correct /\ ~ResultsHas(@, question.hanzi)
                            THEN ResultsSet(@, question.hanzi, c.roundNumber)
                            ELSE @,
                !.incorrectThisRound = IF ~response.correct
                                       THEN Append(@, question) ELSE @,
                !.feedback = IF response.correct THEN "correct" ELSE "incorrect",
                !.synonymBtn =
                    IF ~response.correct
                        /\ c.mode \in {"english2pinyin", "hanzi2pinyin"}
                    THEN <<[question |-> question, answer |-> request.answer]>>
                    ELSE <<>>,
                !.submitHidden = TRUE, !.nextHidden = FALSE,
                !.submitDisabled = FALSE]

\* The rest of the Synonym listener, run when markPinyinSynonym has returned
SynonymArrives(c, request) ==
    [c EXCEPT !.incorrectThisRound = SelectSeq(@, LAMBDA q : q # request.question),
              !.results = ResultsDelete(@, request.question.hanzi),
              !.feedback = "synonym", !.synonymBtn = <<>>,
              !.submitHidden = FALSE, !.nextHidden = TRUE,
              !.submitBlocked = TRUE]

\* A request in flight is served and its response reaches the page
ResponseArrives(i) ==
    /\ i \in 1 .. Len(client.pending)
    /\ LET request == client.pending[i]
           rest == [client EXCEPT
                      !.pending = SubSeq(@, 1, i - 1) \o SubSeq(@, i + 1, Len(@))]
       IN  CASE request.kind = "answer" ->
                  /\ client' = AnswerArrives(rest, request,
                                   AnswerResponse(words, synonyms,
                                       [mode |-> client.mode,
                                        hanzi |-> request.question.hanzi,
                                        answer |-> request.answer]))
                  /\ last' = [op |-> "page"]
                  /\ UNCHANGED <<progress, answered, synonyms>>
              [] request.kind = "synonym" ->
                  /\ synonyms' = AddPinyinSynonym(synonyms, request.question.hanzi,
                                                  ToNumberedPinyin(request.answer))
                  /\ client' = SynonymArrives(rest, request)
                  /\ last' = [op |-> "page"]
                  /\ UNCHANGED <<progress, answered>>
              [] request.kind = "complete" ->
                  LET results == request.results
                      draws == [j \in 1 .. Len(results) |-> 0]
                      done == CompleteLoop([progress |-> progress, upserts |-> <<>>],
                                           results, draws, 1, client.mode, FALSE, now)
                  IN  /\ progress' = done.progress
                      /\ answered' = answered \cup
                             {<<results[j].hanzi, client.mode>> : j \in 1 .. Len(results)}
                      /\ client' = [rest EXCEPT !.screen = "result"]
                      /\ last' = [op |-> "finish", mode |-> client.mode,
                                  results |-> results, status |-> 200,
                                  upserts |-> done.upserts]
                      /\ UNCHANGED synonyms
    /\ UNCHANGED <<words, now, session, pendingAdds, seeded, steps, examples, cache>>

\* What the learner types: a right answer to each review word, a wrong answer,
\* and nothing
PageTyped ==
    {<<"n", "i3", Space, "h", "a3", "o">>, <<"d", "e", Space>>, Nin, <<>>}

\* The sessions the learner starts
PageStartRequests ==
    [mode : {"hanzi2pinyin", "english2hanzi"}, count : {1, 2},
     wordSelection : {"review"}, categories : {{}},
     characterMode : {FALSE}, hanziList : {<<>>}]

PageNext ==
    \/ \E req \in PageStartRequests : PageStart(req)
    \/ \E typed \in PageTyped : ClickSubmit(typed)
    \/ \E typed \in PageTyped : EnterInAnswerInput(typed)
    \/ ClickSkip
    \/ ClickSynonym
    \/ ClickNext
    \/ Unblock
    \/ \E i \in 1 .. MaxClientSteps : ResponseArrives(i)

PageSpec == PageInit /\ [][PageNext]_vars

----------------------------------------------------------------------------
(* Requests in flight on the practice page (C36 to C38), checked under PageSpec *)

\* C36 as the spec states it: whatever the learner clicks or presses while the
\* completion request is pending, completePractice is called at most once in a
\* session.
C36_Original == client.completes <= 1

\* C37 as the spec states it: whatever the learner clicks or presses while
\* submitAnswer responses are pending, no question appears twice in the
\* questions of a retry round.
C37_Original ==
    client.roundNumber >= 2 =>
        \A i, j \in 1 .. Len(client.questions) :
            client.questions[i].hanzi = client.questions[j].hanzi => i = j

\* C38 as the spec states it: the results a completion request carries hold
\* every question of the session exactly once, whatever the learner clicked or
\* pressed while responses were pending.
C38_Original ==
    \A k \in 1 .. Len(client.pending) :
        client.pending[k].kind = "complete" =>
            LET results == client.pending[k].results
            IN  /\ \A q \in 1 .. Len(client.allQuestions) :
                       \E i \in 1 .. Len(results) :
                           results[i].hanzi = client.allQuestions[q].hanzi
                /\ \A i, j \in 1 .. Len(results) :
                       results[i].hanzi = results[j].hanzi => i = j

=============================================================================
